---- MODULE Spec2Model ----
(***************************************************************************)
(* Model of the WAMP communication binding (WampBinding): the pending      *)
(* publication queue, the registry of issued subscription items, and the   *)
(* connection callbacks (onopen / onclose) that replay both on every       *)
(* (re)connection.  The autobahn Connection is the environment: it opens,  *)
(* loses and closes sessions and settles the promises of publish,          *)
(* subscribe and unsubscribe calls.  Every handler of the binding runs to  *)
(* completion (JavaScript, one thread), so every handler is one action.    *)
(***************************************************************************)
EXTENDS Integers, Sequences, FiniteSets, TLC

(* Bounds of the model. *)
MaxPublish == 3
MaxSubscribe == 2
MaxSessions == 2
(* Where publications and subscriptions are combined: *)
MaxLifePublish == 2
MaxLifeSubscribe == 1
(* Where raw topics are examined: the length of a topic and the number of   *)
(* events given to the binding.                                             *)
MaxTopicLen == 3
MaxRawEvents == 1
(* Where topics are encoded and decoded: the length of a namespace, of an  *)
(* event filter and of a topic component.                                   *)
MaxComponentLen == 2
(* Where join events of an earlier open are still queued at a later open:  *)
(* the number of sessions.                                                 *)
MaxRejoinSessions == 3
(* Where a Raw subscription meets a structured topic: the length of the   *)
(* Raw topic.                                                             *)
MaxFilterLen == 4

(* Inputs. *)
Publications == { [topic |-> "tA", ack |-> FALSE], [topic |-> "t1", ack |-> FALSE],
                  [topic |-> "t1", ack |-> TRUE] }
(* _subscriptionItemPredicate(eventType, topic, match): the key of an item *)
SubscriptionKey(eventType, topic, match) == eventType \o "|" \o topic \o "|" \o match
RawKey == SubscriptionKey("Raw", "t", "exact")
IoValueKey == SubscriptionKey("IoValue", "t", "exact")
SubKeys == {RawKey, IoValueKey}
JoinEvents ==
    << [id |-> -1, topic |-> "tA", ack |-> FALSE],
       [id |-> -2, topic |-> "tB", ack |-> FALSE],
       [id |-> -3, topic |-> "tC", ack |-> FALSE] >>
UnjoinEvent == [id |-> -9, topic |-> "tU", ack |-> FALSE]
JoinOptions == [defined |-> TRUE, joinEvents |-> JoinEvents, unjoinEvent |-> UnjoinEvent]
NoJoinOptions == [defined |-> FALSE, joinEvents |-> <<>>, unjoinEvent |-> UnjoinEvent]

VARIABLES
    joined,                     \* the framework has called onJoin and not yet onUnjoin
    transport,                  \* state of the autobahn Connection object
    everOpened,                 \* the Connection object has opened a session before
    session,                    \* id of the latest session (number of sessions opened)
    _connection,                \* this._connection is defined
    _joinOptions,               \* this._joinOptions
    _isPublishingDeferred,      \* this._isPublishingDeferred
    _pendingPublicationItems,   \* this._pendingPublicationItems
    _issuedSubscriptionItems,   \* this._issuedSubscriptionItems (item ids)
    itemKey,                    \* item id -> (eventType, topic, match) key; "" if not created
    subscription,               \* item id -> item.subscription: 0 undefined, else its session
    nPub,                       \* number of publish requests so far
    pubAcks,                    \* pending promises of acknowledged publish calls
    subReqs,                    \* pending promises of subscribe calls
    unsubReqs,                  \* pending promises of unsubscribe calls
    calls,                      \* calls issued on the open session, in order
    notes,                      \* the last two emitted communication states
    emitted,                    \* number of communication states the last handler emitted
    sendFailed,                 \* a publish promise failed, or settled late, in the open session
    lastOp                      \* the handler that ran last

vars == << joined, transport, everOpened, session, _connection, _joinOptions,
           _isPublishingDeferred, _pendingPublicationItems, _issuedSubscriptionItems,
           itemKey, subscription, nPub, pubAcks, subReqs, unsubReqs, calls, notes,
           emitted, sendFailed, lastOp >>

(* The functions of WampTopic keep no state: a call is followed by its       *)
(* argument and its result.                                                 *)
VARIABLES
    argComponent,                  \* argument of _encodeTopicComponent
    resEncoded,           \* its result, the argument of _decodeTopicComponent
    resDecoded,           \* result of _decodeTopicComponent
    argDescriptor,                 \* arguments of getTopicName and getTopicFilter
    resTopicName,                  \* result of getTopicName
    resWampTopic,                  \* result of createByName
    resTopicFilter                 \* result of getTopicFilter

(* The payload of an event on its way: the item made of the event, the      *)
(* arguments of the publish call, the item of a subscription and what its   *)
(* handler gives to _dispatchMessage.                                       *)
VARIABLES
    argEventLike,               \* the event given to onPublish
    resPubItem,                 \* the publication item made of it
    resFrame,                   \* args and kwargs of the publish call
    resSubItem,                 \* the subscription item of a subscriber
    resPayload                  \* the payload its handler reads from the frame

payloadVars == << argEventLike, resPubItem, resFrame, resSubItem, resPayload >>
topicVars == << argComponent, resEncoded, resDecoded, argDescriptor, resTopicName,
                resWampTopic, resTopicFilter, payloadVars >>
allVars == << vars, topicVars >>

(* No call of a function of WampTopic has been followed. *)
NotCalled == << "not called" >>
NoWampTopic == [called |-> FALSE]
PayloadIdle ==
    /\ argEventLike = [called |-> FALSE]
    /\ resPubItem = [called |-> FALSE]
    /\ resFrame = [called |-> FALSE]
    /\ resSubItem = [called |-> FALSE]
    /\ resPayload = [called |-> FALSE]
TopicIdle ==
    /\ PayloadIdle
    /\ argComponent = NotCalled
    /\ resEncoded = NotCalled
    /\ resDecoded = NotCalled
    /\ argDescriptor = [called |-> FALSE]
    /\ resTopicName = NotCalled
    /\ resWampTopic = NoWampTopic
    /\ resTopicFilter = NotCalled

ItemIds == 1..MaxSubscribe

(* Connection.isConnected / Connection.isOpen as the binding reads them    *)
(* through this._connection?.                                               *)
TransportConnected == transport \in {"connecting", "open", "closingOpen", "closingConn"}
TransportOpen == transport \in {"open", "closingOpen"}
isConnected == _connection /\ TransportConnected
isOpen == _connection /\ TransportOpen

(* emit("communicationState", s): keep the last two emitted states. *)
Emit(ns, s) == IF Len(ns) < 2 THEN Append(ns, s) ELSE << ns[2], s >>

(* Records of the calls issued on a session. *)
TestamentCall(scope, ev) == [kind |-> "add_testament", id |-> ev.id, tag |-> scope, topic |-> ev.topic]
SubscribeCall(i, k) == [kind |-> "subscribe", id |-> i, tag |-> k, topic |-> ""]
UnsubscribeCall(i) == [kind |-> "unsubscribe", id |-> i, tag |-> "", topic |-> ""]
PublishCall(item) == [kind |-> "publish", id |-> item.id, tag |-> IF item.ack THEN "ack" ELSE "", topic |-> item.topic]

RECURSIVE PublishCalls(_)
PublishCalls(items) ==
    IF items = <<>> THEN <<>>
    ELSE << PublishCall(Head(items)) >> \o PublishCalls(Tail(items))

SelectKind(cs, k) == SelectSeq(cs, LAMBDA c : c.kind = k)

----
(* Publication management *)

(* An insertion that ignores the once option (variant of AddPublicationItem) *)
AddPublicationItemAlways(q, item, shouldAddFirst, once) ==
    IF shouldAddFirst THEN << item >> \o q ELSE Append(q, item)

(* _addPublicationItem(eventLike, shouldAddFirst, once) *)
AddPublicationItem(q, item, shouldAddFirst, once) ==
    IF once /\ (\E i \in 1..Len(q) : q[i].topic = item.topic) THEN q
    ELSE IF shouldAddFirst THEN << item >> \o q
    ELSE Append(q, item)

(* The loop of onopen: join events are added first, from the last to the first. *)
RECURSIVE AddJoinEvents(_, _, _)
AddJoinEvents(q, evs, i) ==
    IF i = 0 THEN q
    ELSE AddJoinEvents(AddPublicationItem(q, evs[i], TRUE, TRUE), evs, i - 1)

(* A drain that stops after its first publish call (variant of the loop below, *)
(* used to validate the properties of the drain).                             *)
DoDrainOnce(q, deferred, open) ==
    IF ~open \/ q = <<>>
    THEN [q |-> q, deferred |-> TRUE, sent |-> <<>>, awaited |-> <<>>]
    ELSE [q |-> Tail(q), deferred |-> TRUE, sent |-> << Head(q) >>, awaited |-> <<>>]

(* _doDrainPublications(): publishes the head; an unacknowledged head is    *)
(* shifted at once and the loop goes on, an acknowledged one stays until    *)
(* its promise settles.  Result: the queue, the flag, the items passed to  *)
(* session.publish and the items whose acknowledgment is now awaited.      *)
RECURSIVE DoDrainPublications(_, _, _)
DoDrainPublications(q, deferred, open) ==
    IF ~open \/ q = <<>>
    THEN [q |-> q, deferred |-> TRUE, sent |-> <<>>, awaited |-> <<>>]
    ELSE IF Head(q).ack
    THEN [q |-> q, deferred |-> deferred, sent |-> << Head(q) >>, awaited |-> << Head(q) >>]
    ELSE LET r == DoDrainPublications(Tail(q), deferred, open)
         IN  [r EXCEPT !.sent = << Head(q) >> \o r.sent]

(* _drainPublications() *)
DrainPublications(q, deferred, open) ==
    IF ~deferred
    THEN [q |-> q, deferred |-> deferred, sent |-> <<>>, awaited |-> <<>>]
    ELSE DoDrainPublications(q, FALSE, open)

(* The promises created by a drain that appended r.sent to the log cs. *)
NewAcks(r, cs, s) ==
    IF r.awaited = <<>> THEN {}
    ELSE { [id |-> r.awaited[1].id, session |-> s, n |-> Len(cs) + Len(r.sent)] }

----
(* Subscription management *)

Created == { i \in ItemIds : itemKey[i] # "" }
NextItem == Cardinality(Created) + 1

(* A lookup that never finds an item (variant of FindIndex) *)
FindIndexNone(items, k) == 0

(* findIndex(_subscriptionItemPredicate(eventType, topic, match)): 0 if none *)
FindIndex(items, k) ==
    IF \E j \in 1..Len(items) : itemKey[items[j]] = k
    THEN CHOOSE j \in 1..Len(items) :
            /\ itemKey[items[j]] = k
            /\ \A h \in 1..(j - 1) : itemKey[items[h]] # k
    ELSE 0

(* A removal that takes the first item, not the found one (variant of Splice) *)
SpliceFirst(items, idx) == Tail(items)

(* splice(index, 1) *)
Splice(items, idx) == [j \in 1..(Len(items) - 1) |-> IF j < idx THEN items[j] ELSE items[j + 1]]

(* A subscribe that is put off to the next open (variant of SubscribeCalls) *)
SubscribeCallsLater(items, keys, open) == <<>>

(* _subscribeItems(items): one session.subscribe per item, if a session is open *)
SubscribeCalls(items, keys, open) ==
    IF open THEN [j \in 1..Len(items) |-> SubscribeCall(items[j], keys[items[j]])] ELSE <<>>

SubscribeReqs(items, open, s) ==
    IF open THEN { [item |-> items[j], session |-> s] : j \in 1..Len(items) } ELSE {}

(* An unsubscribe issued for every handle, open session or not (variant of *)
(* UnsubscribeOutcome)                                                     *)
UnsubscribeOutcomeAlways(i) == IF subscription[i] = 0 THEN "none" ELSE "call"

(* _unsubscribeItems(item): what the call this._connection?.session.unsubscribe *)
(* does for an item: nothing, a TypeError (session is null) or a call.         *)
UnsubscribeOutcome(i) ==
    IF subscription[i] = 0 \/ ~_connection THEN "none"
    ELSE IF ~TransportOpen THEN "throw"
    ELSE "call"

UnsubscribeCalls(i) ==
    IF UnsubscribeOutcome(i) = "call" THEN << UnsubscribeCall(i) >> ELSE <<>>

UnsubscribeReqs(i) ==
    IF UnsubscribeOutcome(i) = "call"
    THEN { [item |-> i, session |-> session, handle |-> subscription[i]] }
    ELSE {}

(* forEach(i => delete i.subscription) of _resetSession over the given items *)
ClearSubscriptions(sub, items) ==
    [i \in ItemIds |-> IF \E j \in 1..Len(items) : items[j] = i THEN 0 ELSE sub[i]]

LiveCount(items) == Cardinality({ j \in 1..Len(items) : subscription[items[j]] # 0 })

----
(* The handler that ran last, with what it saw before it ran. *)
Op(name, reason) ==
    [name |-> name, reason |-> reason, threw |-> FALSE,
     pending |-> 0, issued |-> 0, live |-> 0]

(* onclose: with the lengths of the queue and the registry it found *)
OpSeen(name, reason) ==
    [name |-> name, reason |-> reason, threw |-> FALSE,
     pending |-> Len(_pendingPublicationItems),
     issued |-> Len(_issuedSubscriptionItems),
     live |-> LiveCount(_issuedSubscriptionItems)]

(* Whether a promise of session s settles while s is still the open session *)
Late(s) == IF s = session /\ TransportOpen THEN "" ELSE "late"

(* A handler that emits no communication state *)
NoNotify ==
    /\ notes' = notes
    /\ emitted' = 0

(* An emit that is dropped (variant of Notify) *)
NotifyDropped(state) == NoNotify

(* this.emit("communicationState", state) *)
Notify(state) ==
    /\ notes' = Emit(notes, state)
    /\ emitted' = 1

Threw(op) == [op EXCEPT !.threw = TRUE]

(* A session reset that leaves the subscription handles (variant of ResetSession) *)
ResetSessionKeepsHandles ==
    /\ Notify("Offline")
    /\ UNCHANGED << _connection, _joinOptions, _isPublishingDeferred,
                    _pendingPublicationItems, _issuedSubscriptionItems, subscription >>

(* _resetSession() *)
ResetSession ==
    /\ subscription' = ClearSubscriptions(subscription, _issuedSubscriptionItems)
    /\ Notify("Offline")
    /\ UNCHANGED << _connection, _joinOptions, _isPublishingDeferred,
                    _pendingPublicationItems, _issuedSubscriptionItems >>

(* A reset that keeps the queue and the registry (variant of Reset) *)
ResetKeepsItems ==
    /\ _connection' = FALSE
    /\ _joinOptions' = NoJoinOptions
    /\ _isPublishingDeferred' = TRUE
    /\ subscription' = ClearSubscriptions(subscription, _issuedSubscriptionItems)
    /\ Notify("Offline")
    /\ UNCHANGED << _pendingPublicationItems, _issuedSubscriptionItems >>

(* A reset that keeps the publication queue (variant of Reset) *)
ResetKeepsQueue ==
    /\ _connection' = FALSE
    /\ _joinOptions' = NoJoinOptions
    /\ _isPublishingDeferred' = TRUE
    /\ _issuedSubscriptionItems' = <<>>
    /\ subscription' = ClearSubscriptions(subscription, <<>>)
    /\ Notify("Offline")
    /\ UNCHANGED _pendingPublicationItems

(* _reset(): the registry is emptied before _resetSession() runs over it *)
Reset ==
    /\ _connection' = FALSE
    /\ _joinOptions' = NoJoinOptions
    /\ _isPublishingDeferred' = TRUE
    /\ _pendingPublicationItems' = <<>>
    /\ _issuedSubscriptionItems' = <<>>
    /\ subscription' = ClearSubscriptions(subscription, <<>>)
    /\ Notify("Offline")

----
(* Communication binding protocol handlers *)

(* A binding whose draining is not armed at first (variant of InitBinding) *)
InitBindingDisarmed ==
    /\ joined = FALSE
    /\ transport = "none"
    /\ everOpened = FALSE
    /\ session = 0
    /\ _connection = FALSE
    /\ _joinOptions = NoJoinOptions
    /\ _isPublishingDeferred = FALSE
    /\ _pendingPublicationItems = <<>>
    /\ _issuedSubscriptionItems = <<>>
    /\ itemKey = [i \in ItemIds |-> ""]
    /\ subscription = [i \in ItemIds |-> 0]
    /\ nPub = 0
    /\ pubAcks = {}
    /\ subReqs = {}
    /\ unsubReqs = {}
    /\ calls = <<>>
    /\ notes = << "Offline" >>
    /\ emitted = 1
    /\ sendFailed = FALSE
    /\ lastOp = Op("onInit", "")

(* The binding after onInit(): _reset() *)
InitBinding ==
    /\ joined = FALSE
    /\ transport = "none"
    /\ everOpened = FALSE
    /\ session = 0
    /\ _connection = FALSE
    /\ _joinOptions = NoJoinOptions
    /\ _isPublishingDeferred = TRUE
    /\ _pendingPublicationItems = <<>>
    /\ _issuedSubscriptionItems = <<>>
    /\ itemKey = [i \in ItemIds |-> ""]
    /\ subscription = [i \in ItemIds |-> 0]
    /\ nPub = 0
    /\ pubAcks = {}
    /\ subReqs = {}
    /\ unsubReqs = {}
    /\ calls = <<>>
    /\ notes = << "Offline" >>
    /\ emitted = 1
    /\ sendFailed = FALSE
    /\ lastOp = Op("onInit", "")

Init == InitBinding /\ TopicIdle

(* onJoin(joinOptions): a new Connection is created and opened.  The model  *)
(* follows one Connection object at a time: a join is taken only when no    *)
(* earlier Connection is still connecting, open or retrying.                *)
OnJoin ==
    /\ ~joined
    /\ transport \in {"none", "dead"}
    /\ joined' = TRUE
    /\ transport' = "connecting"
    /\ everOpened' = FALSE
    /\ _connection' = TRUE
    /\ _joinOptions' = JoinOptions
    /\ lastOp' = Op("onJoin", "")
    /\ UNCHANGED << session, _isPublishingDeferred, _pendingPublicationItems,
                    _issuedSubscriptionItems, itemKey, subscription, nPub,
                    pubAcks, subReqs, unsubReqs, calls, sendFailed >>
    /\ NoNotify

(* _addSessionTestaments(session) *)
AddSessionTestaments(opts) ==
    << TestamentCall("destroyed", opts.unjoinEvent), TestamentCall("detached", opts.unjoinEvent) >>

(* The try block of connection.onopen, this._connection being defined *)
OpenSequence ==
    LET q1 == AddJoinEvents(_pendingPublicationItems, _joinOptions.joinEvents,
                            Len(_joinOptions.joinEvents))
        r  == DrainPublications(q1, _isPublishingDeferred, TRUE)
        cs == AddSessionTestaments(_joinOptions)
                \o SubscribeCalls(_issuedSubscriptionItems, itemKey, TRUE)
    IN  /\ Notify("Online")
        /\ calls' = cs \o PublishCalls(r.sent)
        /\ subReqs' = subReqs \cup SubscribeReqs(_issuedSubscriptionItems, TRUE, session')
        /\ pubAcks' = pubAcks \cup NewAcks(r, cs, session')
        /\ _pendingPublicationItems' = r.q
        /\ _isPublishingDeferred' = r.deferred
        /\ UNCHANGED << _connection, _joinOptions, _issuedSubscriptionItems, subscription >>

(* connection.onopen(session, details): this._connection.transport throws a  *)
(* TypeError if this._connection is undefined; the catch block resets.       *)
OpenSession ==
    /\ transport = "connecting"
    /\ transport' = "open"
    /\ everOpened' = TRUE
    /\ session' = session + 1
    /\ IF _connection
       THEN /\ OpenSequence
            /\ lastOp' = Op("onopen", "")
       ELSE /\ Reset
            /\ calls' = <<>>
            /\ lastOp' = Threw(Op("onopen", ""))
            /\ UNCHANGED << pubAcks, subReqs >>
    /\ sendFailed' = (pubAcks # {})
    /\ UNCHANGED << joined, itemKey, nPub, unsubReqs >>

(* connection.onopen on a connection that onUnjoin has closed in the      *)
(* meantime: a call of the try block throws "not opened", the first       *)
(* add_testament call (at = 1), the first subscribe call (at = 2) or the  *)
(* first publish call (at = 3); Online was emitted before, the catch      *)
(* block resets, and connection.onclose is not called afterwards.         *)
OnOpenThrows(at) ==
    /\ transport = "closingConn"
    /\ _connection
    /\ session < MaxSessions
    /\ at = 2 => _issuedSubscriptionItems # <<>>
    /\ at = 3 => _isPublishingDeferred
    /\ transport' = "dead"
    /\ everOpened' = TRUE
    /\ session' = session + 1
    /\ calls' = IF at = 1 THEN <<>>
                ELSE IF at = 2 THEN AddSessionTestaments(_joinOptions)
                ELSE AddSessionTestaments(_joinOptions)
                        \o SubscribeCalls(_issuedSubscriptionItems, itemKey, TRUE)
    /\ subReqs' = IF at = 3
                  THEN subReqs \cup SubscribeReqs(_issuedSubscriptionItems, TRUE, session')
                  ELSE subReqs
    /\ _connection' = FALSE
    /\ _joinOptions' = NoJoinOptions
    /\ _isPublishingDeferred' = TRUE
    /\ _pendingPublicationItems' = <<>>
    /\ _issuedSubscriptionItems' = <<>>
    /\ subscription' = ClearSubscriptions(subscription, <<>>)
    /\ notes' = Emit(Emit(notes, "Online"), "Offline")
    /\ emitted' = 2
    /\ lastOp' = Threw(Op("onopen", "not opened"))
    /\ sendFailed' = (pubAcks # {})
    /\ UNCHANGED << joined, itemKey, nPub, pubAcks, unsubReqs >>

(* The sessions a connection opens, up to the bound *)
OnOpen == session < MaxSessions /\ OpenSession

(* The same where a connection is lost and opens again more than once *)
OnReopen == session < MaxRejoinSessions /\ OpenSession

(* What the Connection does after onclose returned false *)
AfterClose(reason, willRetry) ==
    IF reason \in {"lost", "unreachable"} /\ transport \in {"open", "connecting"} /\ willRetry
    THEN "waiting" ELSE "dead"

(* The reasons the Connection can report in its current state *)
CloseReasons ==
    CASE transport = "open" -> {"lost"}
      [] transport = "connecting" -> IF everOpened THEN {"lost"} ELSE {"unreachable", "unsupported"}
      [] transport = "closingOpen" -> {"closed"}
      [] transport = "closingConn" -> IF everOpened THEN {"closed"} ELSE {"unreachable"}
      [] OTHER -> {}

(* connection.onclose(reason, details) *)
OnClose(reason, willRetry) ==
    /\ reason \in CloseReasons
    /\ transport' = AfterClose(reason, willRetry)
    /\ IF reason = "lost" THEN ResetSession ELSE Reset
    /\ calls' = <<>>
    /\ sendFailed' = FALSE
    /\ lastOp' = OpSeen("onclose", reason)
    /\ UNCHANGED << joined, everOpened, session, itemKey, nPub, pubAcks, subReqs,
                    unsubReqs >>

(* The retry timer of the Connection fires: a new transport is created *)
Retry ==
    /\ transport = "waiting"
    /\ transport' = "connecting"
    /\ UNCHANGED << joined, everOpened, session, _connection, _joinOptions,
                    _isPublishingDeferred, _pendingPublicationItems,
                    _issuedSubscriptionItems, itemKey, subscription, nPub, pubAcks,
                    subReqs, unsubReqs, calls, notes, emitted, sendFailed, lastOp >>

(* onUnjoin() *)
OnUnjoin ==
    /\ joined
    /\ joined' = FALSE
    /\ IF ~isConnected
       THEN /\ Reset
            /\ UNCHANGED transport
       ELSE /\ transport' = IF TransportOpen THEN "closingOpen" ELSE "closingConn"
            /\ UNCHANGED << _connection, _joinOptions, _isPublishingDeferred,
                            _pendingPublicationItems, _issuedSubscriptionItems,
                            subscription >>
            /\ NoNotify
    /\ lastOp' = Op("onUnjoin", IF isConnected THEN "close" ELSE "reset")
    /\ UNCHANGED << everOpened, session, itemKey, nPub, pubAcks, subReqs, unsubReqs,
                    calls, sendFailed >>

(* onPublish(eventLike): _addPublicationItem, then _drainPublications *)
OnPublish(topic, ack) ==
    /\ nPub < MaxPublish
    /\ nPub' = nPub + 1
    /\ LET item == [id |-> nPub + 1, topic |-> topic, ack |-> ack]
           q1 == AddPublicationItem(_pendingPublicationItems, item, FALSE, FALSE)
           r  == DrainPublications(q1, _isPublishingDeferred, isOpen)
       IN  /\ _pendingPublicationItems' = r.q
           /\ _isPublishingDeferred' = r.deferred
           /\ calls' = calls \o PublishCalls(r.sent)
           /\ pubAcks' = pubAcks \cup NewAcks(r, calls, session)
    /\ lastOp' = Op("onPublish", "")
    /\ UNCHANGED << joined, transport, everOpened, session, _connection, _joinOptions,
                    _issuedSubscriptionItems, itemKey, subscription, subReqs,
                    unsubReqs, sendFailed >>
    /\ NoNotify

(* shift() of an array: an empty array stays empty *)
Shift(q) == IF q = <<>> THEN q ELSE Tail(q)

(* The then-callback of the promise of session.publish *)
PublishResolved(p) ==
    /\ p \in pubAcks
    /\ LET r == DoDrainPublications(Shift(_pendingPublicationItems),
                                    _isPublishingDeferred, isOpen)
       IN  /\ _pendingPublicationItems' = r.q
           /\ _isPublishingDeferred' = r.deferred
           /\ calls' = calls \o PublishCalls(r.sent)
           /\ pubAcks' = (pubAcks \ {p}) \cup NewAcks(r, calls, session)
    /\ lastOp' = Op("published", Late(p.session))
    /\ sendFailed' = (TransportOpen /\ (sendFailed \/ Late(p.session) = "late"))
    /\ NoNotify
    /\ UNCHANGED << joined, transport, everOpened, session, _connection, _joinOptions,
                    _issuedSubscriptionItems, itemKey, subscription, nPub, subReqs,
                    unsubReqs >>

(* A catch-callback that drops the failed head (variant of PublishRejected) *)
PublishRejectedShifts(p) ==
    /\ p \in pubAcks
    /\ pubAcks' = pubAcks \ {p}
    /\ _isPublishingDeferred' = TRUE
    /\ _pendingPublicationItems' = Shift(_pendingPublicationItems)
    /\ lastOp' = Op("publishFailed", Late(p.session))
    /\ sendFailed' = TransportOpen
    /\ NoNotify
    /\ UNCHANGED << joined, transport, everOpened, session, _connection, _joinOptions,
                    _issuedSubscriptionItems, itemKey, subscription, nPub, subReqs,
                    unsubReqs, calls >>

(* The catch-callback of the promise of session.publish *)
PublishRejected(p) ==
    /\ p \in pubAcks
    /\ pubAcks' = pubAcks \ {p}
    /\ _isPublishingDeferred' = TRUE
    /\ lastOp' = Op("publishFailed", Late(p.session))
    /\ sendFailed' = TransportOpen
    /\ NoNotify
    /\ UNCHANGED << joined, transport, everOpened, session, _connection, _joinOptions,
                    _pendingPublicationItems, _issuedSubscriptionItems, itemKey,
                    subscription, nPub, subReqs, unsubReqs, calls >>

(* onSubscribe(eventLike): _addSubscriptionItem *)
OnSubscribe(k) ==
    /\ NextItem \in ItemIds
    /\ LET i   == NextItem
           idx == FindIndex(_issuedSubscriptionItems, k)
           old == _issuedSubscriptionItems[idx]
           keys == [itemKey EXCEPT ![i] = k]
       IN  /\ itemKey' = keys
           /\ subReqs' = subReqs \cup SubscribeReqs(<< i >>, isOpen, session)
           /\ IF idx = 0
              THEN /\ _issuedSubscriptionItems' = Append(_issuedSubscriptionItems, i)
                   /\ calls' = calls \o SubscribeCalls(<< i >>, keys, isOpen)
                   /\ lastOp' = Op("onSubscribe", k)
                   /\ UNCHANGED unsubReqs
              ELSE /\ _issuedSubscriptionItems' = [_issuedSubscriptionItems EXCEPT ![idx] = i]
                   /\ calls' = calls \o SubscribeCalls(<< i >>, keys, isOpen) \o UnsubscribeCalls(old)
                   /\ unsubReqs' = unsubReqs \cup UnsubscribeReqs(old)
                   /\ lastOp' = IF UnsubscribeOutcome(old) = "throw"
                                THEN Threw(Op("onSubscribe", k))
                                ELSE Op("onSubscribe", k)
    /\ UNCHANGED << joined, transport, everOpened, session, _connection, _joinOptions,
                    _isPublishingDeferred, _pendingPublicationItems, subscription,
                    nPub, pubAcks, sendFailed >>
    /\ NoNotify

(* onUnsubscribe(eventLike): _removeSubscriptionItem *)
OnUnsubscribe(k) ==
    /\ LET idx == FindIndex(_issuedSubscriptionItems, k)
           old == _issuedSubscriptionItems[idx]
       IN  IF idx = 0
           THEN /\ lastOp' = Op("onUnsubscribe", k)
                /\ UNCHANGED << _issuedSubscriptionItems, calls, unsubReqs >>
           ELSE /\ _issuedSubscriptionItems' = Splice(_issuedSubscriptionItems, idx)
                /\ calls' = calls \o UnsubscribeCalls(old)
                /\ unsubReqs' = unsubReqs \cup UnsubscribeReqs(old)
                /\ lastOp' = IF UnsubscribeOutcome(old) = "throw"
                             THEN Threw(Op("onUnsubscribe", k))
                             ELSE Op("onUnsubscribe", k)
    /\ UNCHANGED << joined, transport, everOpened, session, _connection, _joinOptions,
                    _isPublishingDeferred, _pendingPublicationItems, itemKey,
                    subscription, nPub, pubAcks, subReqs, sendFailed >>
    /\ NoNotify

(* Callbacks of which the catch-callback forgets the item (variant of    *)
(* SubscribeSettled)                                                      *)
SubscribeSettledForgets(p, ok) ==
    /\ p \in subReqs
    /\ subReqs' = subReqs \ {p}
    /\ subscription' = [subscription EXCEPT ![p.item] = IF ok THEN p.session ELSE 0]
    /\ _issuedSubscriptionItems' =
          IF ok THEN _issuedSubscriptionItems
          ELSE SelectSeq(_issuedSubscriptionItems, LAMBDA i : i # p.item)
    /\ lastOp' = Op(IF ok THEN "subscribed" ELSE "subscribeFailed", Late(p.session))
    /\ NoNotify
    /\ UNCHANGED << joined, transport, everOpened, session, _connection, _joinOptions,
                    _isPublishingDeferred, _pendingPublicationItems,
                    itemKey, nPub, pubAcks, unsubReqs, calls, sendFailed >>

(* The then- and catch-callbacks of the promise of session.subscribe *)
SubscribeSettled(p, ok) ==
    /\ p \in subReqs
    /\ subReqs' = subReqs \ {p}
    /\ subscription' = [subscription EXCEPT ![p.item] = IF ok THEN p.session ELSE 0]
    /\ lastOp' = Op(IF ok THEN "subscribed" ELSE "subscribeFailed", Late(p.session))
    /\ NoNotify
    /\ UNCHANGED << joined, transport, everOpened, session, _connection, _joinOptions,
                    _isPublishingDeferred, _pendingPublicationItems,
                    _issuedSubscriptionItems, itemKey, nPub, pubAcks, unsubReqs,
                    calls, sendFailed >>

(* The then- and catch-callbacks of the promise of session.unsubscribe *)
UnsubscribeSettled(p) ==
    /\ p \in unsubReqs
    /\ unsubReqs' = unsubReqs \ {p}
    /\ subscription' = [subscription EXCEPT ![p.item] = 0]
    /\ lastOp' = Op("unsubscribed", Late(p.session))
    /\ NoNotify
    /\ UNCHANGED << joined, transport, everOpened, session, _connection, _joinOptions,
                    _isPublishingDeferred, _pendingPublicationItems,
                    _issuedSubscriptionItems, itemKey, nPub, pubAcks, subReqs,
                    calls, sendFailed >>

Next ==
    \/ OnJoin /\ UNCHANGED topicVars
    \/ OnOpen /\ UNCHANGED topicVars
    \/ \E reason \in {"closed", "lost", "unreachable", "unsupported"}, willRetry \in BOOLEAN :
          OnClose(reason, willRetry) /\ UNCHANGED topicVars
    \/ Retry /\ UNCHANGED topicVars
    \/ OnUnjoin /\ UNCHANGED topicVars
    \/ \E ev \in Publications : OnPublish(ev.topic, ev.ack) /\ UNCHANGED topicVars
    \/ \E p \in pubAcks : PublishResolved(p) /\ UNCHANGED topicVars
    \/ \E p \in pubAcks : PublishRejected(p) /\ UNCHANGED topicVars
    \/ \E k \in SubKeys : OnSubscribe(k) /\ UNCHANGED topicVars
    \/ \E k \in SubKeys : OnUnsubscribe(k) /\ UNCHANGED topicVars
    \/ \E p \in subReqs, ok \in BOOLEAN : SubscribeSettled(p, ok) /\ UNCHANGED topicVars
    \/ \E p \in unsubReqs : UnsubscribeSettled(p) /\ UNCHANGED topicVars

Spec == Init /\ [][Next]_vars

(* The publication queue alone: no subscription is requested. *)
NextPub ==
    \/ OnJoin /\ UNCHANGED topicVars
    \/ OnOpen /\ UNCHANGED topicVars
    \/ \E reason \in {"closed", "lost", "unreachable", "unsupported"}, willRetry \in BOOLEAN :
          OnClose(reason, willRetry) /\ UNCHANGED topicVars
    \/ Retry /\ UNCHANGED topicVars
    \/ OnUnjoin /\ UNCHANGED topicVars
    \/ \E ev \in Publications : OnPublish(ev.topic, ev.ack) /\ UNCHANGED topicVars
    \/ \E p \in pubAcks : PublishResolved(p) /\ UNCHANGED topicVars
    \/ \E p \in pubAcks : PublishRejected(p) /\ UNCHANGED topicVars

SpecPub == Init /\ [][NextPub]_vars

(* The publication queue across repeated reconnections *)
NextRejoin ==
    \/ OnJoin /\ UNCHANGED topicVars
    \/ OnReopen /\ UNCHANGED topicVars
    \/ \E reason \in {"closed", "lost", "unreachable", "unsupported"}, willRetry \in BOOLEAN :
          OnClose(reason, willRetry) /\ UNCHANGED topicVars
    \/ Retry /\ UNCHANGED topicVars
    \/ OnUnjoin /\ UNCHANGED topicVars
    \/ \E ev \in Publications : OnPublish(ev.topic, ev.ack) /\ UNCHANGED topicVars
    \/ \E p \in pubAcks : PublishResolved(p) /\ UNCHANGED topicVars
    \/ \E p \in pubAcks : PublishRejected(p) /\ UNCHANGED topicVars

SpecRejoin == Init /\ [][NextRejoin]_vars

(* The subscription registry alone: nothing is published by the application. *)
NextSub ==
    \/ OnJoin /\ UNCHANGED topicVars
    \/ OnOpen /\ UNCHANGED topicVars
    \/ \E reason \in {"closed", "lost", "unreachable", "unsupported"}, willRetry \in BOOLEAN :
          OnClose(reason, willRetry) /\ UNCHANGED topicVars
    \/ Retry /\ UNCHANGED topicVars
    \/ OnUnjoin /\ UNCHANGED topicVars
    \/ \E k \in SubKeys : OnSubscribe(k) /\ UNCHANGED topicVars
    \/ \E k \in SubKeys : OnUnsubscribe(k) /\ UNCHANGED topicVars
    \/ \E p \in subReqs, ok \in BOOLEAN : SubscribeSettled(p, ok) /\ UNCHANGED topicVars
    \/ \E p \in unsubReqs : UnsubscribeSettled(p) /\ UNCHANGED topicVars

SpecSub == Init /\ [][NextSub]_vars

(* Publications and subscriptions together, over fewer requests. *)
NextLife ==
    \/ OnJoin /\ UNCHANGED topicVars
    \/ OnOpen /\ UNCHANGED topicVars
    \/ \E reason \in {"closed", "lost", "unreachable", "unsupported"}, willRetry \in BOOLEAN :
          OnClose(reason, willRetry) /\ UNCHANGED topicVars
    \/ Retry /\ UNCHANGED topicVars
    \/ OnUnjoin /\ UNCHANGED topicVars
    \/ \E ev \in Publications : nPub < MaxLifePublish /\ OnPublish(ev.topic, ev.ack) /\ UNCHANGED topicVars
    \/ \E p \in pubAcks : PublishResolved(p) /\ UNCHANGED topicVars
    \/ \E p \in pubAcks : PublishRejected(p) /\ UNCHANGED topicVars
    \/ \E k \in SubKeys : NextItem <= MaxLifeSubscribe /\ OnSubscribe(k) /\ UNCHANGED topicVars
    \/ \E k \in SubKeys : OnUnsubscribe(k) /\ UNCHANGED topicVars
    \/ \E p \in subReqs, ok \in BOOLEAN : SubscribeSettled(p, ok) /\ UNCHANGED topicVars
    \/ \E p \in unsubReqs : UnsubscribeSettled(p) /\ UNCHANGED topicVars

SpecLife == Init /\ [][NextLife]_vars

(* The same with open callbacks that run on a connection being closed *)
NextOpenThrows ==
    \/ NextLife
    \/ \E at \in 1..3 : OnOpenThrows(at) /\ UNCHANGED topicVars

SpecOpenThrows == Init /\ [][NextOpenThrows]_vars

----
(* Topics of Raw and IoValue events (WampTopic) *)

(* A topic is a sequence of pieces: the protocol name, another name, a dot, *)
(* a hash or a white space; the string is their concatenation.             *)
PROTOCOL_NAME == "coaty"
TopicPieces == { PROTOCOL_NAME, "a", ".", "#", " " }
Topics == UNION { [1..n -> TopicPieces] : n \in 0..MaxTopicLen }

RECURSIVE TopicString(_)
TopicString(t) == IF t = <<>> THEN "" ELSE Head(t) \o TopicString(Tail(t))

(* [^\s\.#]: a piece that is part of a URI component *)
InComponent(x) == x \notin { ".", "#", " " }

(* A test that takes no topic for a Coaty topic (variant of isCoatyTopicLike) *)
IsCoatyTopicLikeNever(t) == FALSE

(* isCoatyTopicLike(topicName): topicName.startsWith("coaty.") *)
isCoatyTopicLike(t) == Len(t) >= 2 /\ t[1] = PROTOCOL_NAME /\ t[2] = "."

(* REGEX_URI_LOOSE_EMPTY = /^(([^\s\.#]+\.)|\.)*([^\s\.#]+)?$/ *)
RECURSIVE REGEX_URI_LOOSE_EMPTY(_)
REGEX_URI_LOOSE_EMPTY(t) ==
    \/ t = <<>>
    \/ /\ t # <<>>
       /\ Head(t) = "." \/ InComponent(Head(t))
       /\ REGEX_URI_LOOSE_EMPTY(Tail(t))

(* REGEX_URI_LOOSE_NON_EMPTY = /^([^\s\.#]+\.)*([^\s\.#]+)$/: after a piece  *)
(* of a component comes the end, a further piece, or a dot and a component. *)
RECURSIVE REGEX_URI_LOOSE_NON_EMPTY(_)
REGEX_URI_LOOSE_NON_EMPTY(t) ==
    /\ t # <<>>
    /\ InComponent(Head(t))
    /\ \/ Tail(t) = <<>>
       \/ REGEX_URI_LOOSE_NON_EMPTY(Tail(t))
       \/ /\ Len(t) >= 2
          /\ t[2] = "."
          /\ REGEX_URI_LOOSE_NON_EMPTY(Tail(Tail(t)))

(* isValidTopic(name, forSubscription) *)
isValidTopic(name, forSubscription) ==
    IF name = <<>> THEN FALSE
    ELSE IF forSubscription THEN REGEX_URI_LOOSE_EMPTY(name)
    ELSE REGEX_URI_LOOSE_NON_EMPTY(name)

(* The check of onPublish: a Raw topic that is ignored *)
PublishIgnored(eventType, t) ==
    eventType = "Raw" /\ (isCoatyTopicLike(t) \/ ~isValidTopic(t, FALSE))

(* The checks of onSubscribe: a Raw topic or an IO route that is ignored *)
SubscribeIgnored(eventType, t, isExternalIoRoute) ==
    \/ eventType = "Raw" /\ (isCoatyTopicLike(t) \/ ~isValidTopic(t, TRUE))
    \/ /\ eventType = "IoValue"
       /\ (isExternalIoRoute /\ isCoatyTopicLike(t)) \/ ~isValidTopic(t, FALSE)

(* An entry point that returns after logging the error *)
Ignored(name) ==
    /\ lastOp' = Op(name, "invalid")
    /\ NoNotify
    /\ UNCHANGED << joined, transport, everOpened, session, _connection, _joinOptions,
                    _isPublishingDeferred, _pendingPublicationItems,
                    _issuedSubscriptionItems, itemKey, subscription, nPub, pubAcks,
                    subReqs, unsubReqs, calls, sendFailed >>

(* onPublish(eventLike) for a Raw or IoValue event with the given topic *)
OnPublishEvent(eventType, t, ack) ==
    IF PublishIgnored(eventType, t)
    THEN Ignored("onPublish")
    ELSE OnPublish(TopicString(t), ack)

(* onSubscribe(eventLike) for a Raw or IoValue event with the given topic *)
OnSubscribeEvent(eventType, t, isExternalIoRoute) ==
    IF SubscribeIgnored(eventType, t, isExternalIoRoute)
    THEN Ignored("onSubscribe")
    ELSE OnSubscribe(SubscriptionKey(eventType, TopicString(t), "exact"))

(* The events given to the binding so far *)
RawEvents == nPub + Cardinality(Created)

(* A binding that joins and is given Raw and IoValue events of any topic. *)
NextRaw ==
    \/ OnJoin /\ UNCHANGED topicVars
    \/ OnOpen /\ UNCHANGED topicVars
    \/ \E eventType \in {"Raw", "IoValue"}, t \in Topics :
          RawEvents < MaxRawEvents /\ OnPublishEvent(eventType, t, FALSE) /\ UNCHANGED topicVars
    \/ \E eventType \in {"Raw", "IoValue"}, t \in Topics, ext \in BOOLEAN :
          RawEvents < MaxRawEvents /\ OnSubscribeEvent(eventType, t, ext) /\ UNCHANGED topicVars

SpecRaw == Init /\ [][NextRaw]_vars

----
(* Structured topics (WampTopic): strings are sequences of characters.  The *)
(* protocol name, an object id and the text "undefined" are single pieces.  *)

NUL == "NUL"
(* The value undefined, and what a template literal makes of it *)
Undefined == << "undefined" >>

(* WHITESPACE_CHARS, in the order of the source: space, \f, \n, \r, \t, \v, *)
(* U+00A0, U+1680, U+2000 .. U+200A, U+2028, U+2029, U+202F, U+205F,        *)
(* U+3000, U+FEFF                                                           *)
WHITESPACE_CHARS ==
    << " ", "FF", "LF", "CR", "TAB", "VT", "U+00A0", "U+1680", "U+2000", "U+2001",
       "U+2002", "U+2003", "U+2004", "U+2005", "U+2006", "U+2007", "U+2008",
       "U+2009", "U+200A", "U+2028", "U+2029", "U+202F", "U+205F", "U+3000",
       "U+FEFF" >>

(* \s of a regular expression *)
IsWhiteSpace(c) == \E i \in 1..Len(WHITESPACE_CHARS) : WHITESPACE_CHARS[i] = c
(* What "." of a regular expression does not match *)
LineTerminators == { "LF", "CR", "U+2028", "U+2029" }

Digits == << "0", "1", "2", "3", "4", "5", "6", "7", "8", "9" >>
(* Number.prototype.toString() of a natural number *)
RECURSIVE NumberToString(_)
NumberToString(n) ==
    IF n < 10 THEN << Digits[n + 1] >>
    ELSE NumberToString(n \div 10) \o << Digits[(n % 10) + 1] >>
(* padStart(2, "0") *)
PadStart2(str) == IF Len(str) < 2 THEN << "0" >> \o str ELSE str
(* parseInt(str, 10) of a string of digits *)
DigitValue(c) == CHOOSE i \in 0..9 : Digits[i + 1] = c
RECURSIVE ParseInt(_)
ParseInt(str) ==
    IF Len(str) = 1 THEN DigitValue(str[1])
    ELSE 10 * ParseInt(SubSeq(str, 1, Len(str) - 1)) + DigitValue(str[Len(str)])

(* A code of one digit for every white space character (variant of         *)
(* WHITESPACE_CHARS_ENCODING without padStart and without the tens)         *)
WHITESPACE_CHARS_ENCODING_OneDigit(i) == << "0", Digits[(i % 10) + 1] >>

(* WHITESPACE_CHARS_ENCODING: the code of the character of index i (from 0) *)
WHITESPACE_CHARS_ENCODING(i) == PadStart2(NumberToString(i))

(* WHITESPACE_CHARS_ENCODING.get(char) *)
EncodingGet(char) ==
    IF IsWhiteSpace(char)
    THEN WHITESPACE_CHARS_ENCODING(
             (CHOOSE i \in 1..Len(WHITESPACE_CHARS) :
                 /\ WHITESPACE_CHARS[i] = char
                 /\ \A j \in (i + 1)..Len(WHITESPACE_CHARS) : WHITESPACE_CHARS[j] # char) - 1)
    ELSE Undefined

(* WHITESPACE_CHARS_DECODING.get(c1): the last character with this code *)
DecodingGet(c1) ==
    LET ks == { i \in 1..Len(WHITESPACE_CHARS) : EncodingGet(WHITESPACE_CHARS[i]) = c1 }
    IN IF ks = {} THEN Undefined
       ELSE << WHITESPACE_CHARS[CHOOSE i \in ks : \A j \in ks : j <= i] >>

(* _encodeTopicComponent(component) *)
RECURSIVE _encodeTopicComponent(_)
_encodeTopicComponent(component) ==
    IF component = <<>> THEN <<>>
    ELSE LET char == Head(component)
             encode == EncodingGet(char)
         IN (IF char = "." THEN << NUL, NUL, NUL >>
             ELSE IF IsWhiteSpace(char)
                  THEN << NUL >> \o (IF encode = Undefined THEN << "0", "0" >> ELSE encode)
                  ELSE << char >>)
            \o _encodeTopicComponent(Tail(component))

(* _decodeTopicComponent(encodedComponent): replace(/\u0000(..)/g, ...) *)
RECURSIVE _decodeTopicComponent(_)
_decodeTopicComponent(encodedComponent) ==
    IF encodedComponent = <<>> THEN <<>>
    ELSE IF /\ Head(encodedComponent) = NUL
            /\ Len(encodedComponent) >= 3
            /\ encodedComponent[2] \notin LineTerminators
            /\ encodedComponent[3] \notin LineTerminators
         THEN (IF encodedComponent[2] = NUL THEN << "." >>
               ELSE DecodingGet(<< encodedComponent[2], encodedComponent[3] >>))
              \o _decodeTopicComponent(SubSeq(encodedComponent, 4, Len(encodedComponent)))
         ELSE << Head(encodedComponent) >> \o _decodeTopicComponent(Tail(encodedComponent))

(* CommunicationEventType of @coaty/core, imported by wamp-topic.ts *)
CommunicationEventType ==
    [ Raw |-> 0, OneWay |-> 1, Advertise |-> 2, Deadvertise |-> 3, Channel |-> 4,
      Associate |-> 5, IoValue |-> 6, TwoWay |-> 7, Discover |-> 8, Resolve |-> 9,
      Query |-> 10, Retrieve |-> 11, Update |-> 12, Complete |-> 13, Call |-> 14,
      Return |-> 15 ]
(* An event type that is undefined *)
UndefinedType == -1

(* A table where Return has the key of no entry: RTN stands for Call       *)
(* (variant of EVENT_TYPE_TOPIC_COMPONENTS)                                 *)
EVENT_TYPE_TOPIC_COMPONENTS_Shared ==
    << [key |-> << "A", "D", "V" >>, type |-> CommunicationEventType.Advertise],
       [key |-> << "D", "A", "D" >>, type |-> CommunicationEventType.Deadvertise],
       [key |-> << "C", "H", "N" >>, type |-> CommunicationEventType.Channel],
       [key |-> << "A", "S", "C" >>, type |-> CommunicationEventType.Associate],
       [key |-> << "I", "O", "V" >>, type |-> CommunicationEventType.IoValue],
       [key |-> << "D", "S", "C" >>, type |-> CommunicationEventType.Discover],
       [key |-> << "R", "S", "V" >>, type |-> CommunicationEventType.Resolve],
       [key |-> << "Q", "R", "Y" >>, type |-> CommunicationEventType.Query],
       [key |-> << "R", "T", "V" >>, type |-> CommunicationEventType.Retrieve],
       [key |-> << "U", "P", "D" >>, type |-> CommunicationEventType.Update],
       [key |-> << "C", "P", "L" >>, type |-> CommunicationEventType.Complete],
       [key |-> << "C", "L", "L" >>, type |-> CommunicationEventType.Call],
       [key |-> << "R", "T", "N" >>, type |-> CommunicationEventType.Call] >>

(* EVENT_TYPE_TOPIC_COMPONENTS, the keys in the order of the object literal *)
EVENT_TYPE_TOPIC_COMPONENTS ==
    << [key |-> << "A", "D", "V" >>, type |-> CommunicationEventType.Advertise],
       [key |-> << "D", "A", "D" >>, type |-> CommunicationEventType.Deadvertise],
       [key |-> << "C", "H", "N" >>, type |-> CommunicationEventType.Channel],
       [key |-> << "A", "S", "C" >>, type |-> CommunicationEventType.Associate],
       [key |-> << "I", "O", "V" >>, type |-> CommunicationEventType.IoValue],
       [key |-> << "D", "S", "C" >>, type |-> CommunicationEventType.Discover],
       [key |-> << "R", "S", "V" >>, type |-> CommunicationEventType.Resolve],
       [key |-> << "Q", "R", "Y" >>, type |-> CommunicationEventType.Query],
       [key |-> << "R", "T", "V" >>, type |-> CommunicationEventType.Retrieve],
       [key |-> << "U", "P", "D" >>, type |-> CommunicationEventType.Update],
       [key |-> << "C", "P", "L" >>, type |-> CommunicationEventType.Complete],
       [key |-> << "C", "L", "L" >>, type |-> CommunicationEventType.Call],
       [key |-> << "R", "T", "N" >>, type |-> CommunicationEventType.Return] >>

(* _getEventType(topicComponent): EVENT_TYPE_TOPIC_COMPONENTS[topicComponent] *)
_getEventType(topicComponent) ==
    LET ks == { i \in 1..Len(EVENT_TYPE_TOPIC_COMPONENTS) :
                  EVENT_TYPE_TOPIC_COMPONENTS[i].key = topicComponent }
    IN IF ks = {} THEN UndefinedType
       ELSE EVENT_TYPE_TOPIC_COMPONENTS[CHOOSE i \in ks : TRUE].type

(* _getEventTopicComponentPrefix(eventType): TOPIC_COMPONENTS_BY_EVENT_TYPE *)
(* is filled key by key, so the last key of an event type stays.            *)
_getEventTopicComponentPrefix(eventType) ==
    LET ks == { i \in 1..Len(EVENT_TYPE_TOPIC_COMPONENTS) :
                  EVENT_TYPE_TOPIC_COMPONENTS[i].type = eventType }
    IN IF ks = {} THEN Undefined
       ELSE EVENT_TYPE_TOPIC_COMPONENTS[CHOOSE i \in ks : \A j \in ks : j <= i].key

(* An event type taken for a two-way one whatever it is (variant of        *)
(* _isOneWayEvent)                                                          *)
IsOneWayEventNever(eventType) == FALSE

(* _isOneWayEvent(eventType) *)
_isOneWayEvent(eventType) ==
    /\ eventType > CommunicationEventType.OneWay
    /\ eventType < CommunicationEventType.TwoWay

(* A string that is neither undefined nor empty *)
Truthy(str) == str # Undefined /\ str # <<>>

(* A parser that takes a filter only from the fifth character on (variant   *)
(* of _parseEvent)                                                          *)
ParseEventLate(event) ==
    << _getEventType(SubSeq(event, 1, 3)),
       IF Len(event) > 4 THEN SubSeq(event, 4, Len(event)) ELSE Undefined >>

(* _parseEvent(event): [event type, filter] *)
_parseEvent(event) ==
    LET typeLen == 3
        hasEventFilter == Len(event) > typeLen
        type == IF hasEventFilter THEN SubSeq(event, 1, typeLen) ELSE event
        filter == IF hasEventFilter THEN SubSeq(event, typeLen + 1, Len(event)) ELSE Undefined
    IN << _getEventType(type), filter >>

(* String.prototype.split("."), and the element of an array or undefined *)
RECURSIVE Split(_)
Split(str) ==
    IF \A i \in 1..Len(str) : str[i] # "." THEN << str >>
    ELSE LET i == CHOOSE j \in 1..Len(str) :
                      str[j] = "." /\ \A k \in 1..(j - 1) : str[k] # "."
         IN << SubSeq(str, 1, i - 1) >> \o Split(SubSeq(str, i + 1, Len(str)))
At(array, i) == IF i <= Len(array) THEN array[i] ELSE Undefined

(* getTopicName(version, namespace, eventType, eventTypeFilter, sourceId,   *)
(* correlationId)                                                           *)
getTopicName(version, namespace, eventType, eventTypeFilter, sourceId, correlationId) ==
    LET prefix == _getEventTopicComponentPrefix(eventType)
        event == IF Truthy(eventTypeFilter)
                 THEN prefix \o _encodeTopicComponent(eventTypeFilter)
                 ELSE prefix
        topic == << PROTOCOL_NAME, "." >> \o NumberToString(version) \o << "." >>
                 \o _encodeTopicComponent(namespace) \o << "." >> \o event
                 \o << "." >> \o sourceId
    IN IF ~_isOneWayEvent(eventType) THEN topic \o << "." >> \o correlationId ELSE topic

(* createByName(topicName) for a topic name of five components or more *)
createByName(topicName) ==
    IF ~isCoatyTopicLike(topicName)
    THEN [called |-> TRUE, defined |-> FALSE]
    ELSE LET comps == Split(topicName)
             parsed == _parseEvent(At(comps, 4))
             corrId == At(comps, 6)
         IN [ called |-> TRUE,
              defined |-> TRUE,
              version |-> ParseInt(At(comps, 2)),
              namespace |-> _decodeTopicComponent(At(comps, 3)),
              eventType |-> parsed[1],
              eventTypeFilter |-> IF Truthy(parsed[2])
                                  THEN _decodeTopicComponent(parsed[2])
                                  ELSE parsed[2],
              sourceId |-> At(comps, 5),
              correlationId |-> IF corrId = <<>> THEN Undefined ELSE corrId ]

(* A filter without the dot that ends the event component (variant of      *)
(* getTopicFilter)                                                          *)
GetTopicFilterNoSource(version, namespace, eventType, eventTypeFilter, correlationId) ==
    LET prefix == _getEventTopicComponentPrefix(eventType)
        event == IF Truthy(eventTypeFilter)
                 THEN prefix \o _encodeTopicComponent(eventTypeFilter)
                 ELSE prefix
        comps == << PROTOCOL_NAME, "." >> \o NumberToString(version) \o << "." >>
                 \o (IF Truthy(namespace) THEN _encodeTopicComponent(namespace) ELSE <<>>)
                 \o << "." >> \o event
    IN IF ~_isOneWayEvent(eventType)
       THEN (IF Truthy(correlationId) THEN comps \o << "." >> \o correlationId
             ELSE comps \o << "." >>)
       ELSE comps

(* getTopicFilter(version, namespace, eventType, eventTypeFilter,           *)
(* correlationId)                                                           *)
getTopicFilter(version, namespace, eventType, eventTypeFilter, correlationId) ==
    LET prefix == _getEventTopicComponentPrefix(eventType)
        event == IF Truthy(eventTypeFilter)
                 THEN prefix \o _encodeTopicComponent(eventTypeFilter)
                 ELSE prefix
        comps == << PROTOCOL_NAME, "." >> \o NumberToString(version) \o << "." >>
                 \o (IF Truthy(namespace) THEN _encodeTopicComponent(namespace) ELSE <<>>)
                 \o << "." >> \o event \o << "." >>
    IN IF ~_isOneWayEvent(eventType)
       THEN (IF Truthy(correlationId) THEN comps \o << "." >> \o correlationId
             ELSE comps \o << "." >>)
       ELSE comps

(* A filter of the own namespace also with cross-namespacing (variant of    *)
(* _getTopicFilterFor)                                                      *)
GetTopicFilterForOwnNamespace(eventLike, shouldEnableCrossNamespacing) ==
    << getTopicFilter(eventLike.version, eventLike.namespace, eventLike.eventType,
                      eventLike.eventTypeFilter, eventLike.correlationId),
       "wildcard" >>

(* _getTopicFilterFor(eventLike) for an event that is neither Raw nor       *)
(* IoValue: [topic filter, match]                                           *)
_getTopicFilterFor(eventLike, shouldEnableCrossNamespacing) ==
    << getTopicFilter(eventLike.version,
                      IF shouldEnableCrossNamespacing THEN Undefined ELSE eventLike.namespace,
                      eventLike.eventType, eventLike.eventTypeFilter,
                      eventLike.correlationId),
       "wildcard" >>

(* _getTopicFor(eventLike) for an event that is neither Raw nor IoValue *)
_getTopicFor(eventLike) ==
    getTopicName(eventLike.version, eventLike.namespace, eventLike.eventType,
                 eventLike.eventTypeFilter, eventLike.sourceId, eventLike.correlationId)

(* The strings given to _encodeTopicComponent: no NUL *)
ComponentChars == { "a", "0", "." } \cup { WHITESPACE_CHARS[i] : i \in 1..Len(WHITESPACE_CHARS) }
Components == UNION { [1..n -> ComponentChars] : n \in 0..MaxComponentLen }

EncodeTopicComponent ==
    /\ resEncoded = NotCalled
    /\ resEncoded' = _encodeTopicComponent(argComponent)
    /\ UNCHANGED << vars, argComponent, resDecoded, argDescriptor, resTopicName, resWampTopic,
                    resTopicFilter, payloadVars >>

DecodeTopicComponent ==
    /\ resEncoded # NotCalled
    /\ resDecoded = NotCalled
    /\ resDecoded' = _decodeTopicComponent(resEncoded)
    /\ UNCHANGED << vars, argComponent, resEncoded, argDescriptor, resTopicName, resWampTopic,
                    resTopicFilter, payloadVars >>

(* A component is encoded and the result is decoded. *)
InitComponent ==
    /\ InitBinding
    /\ PayloadIdle
    /\ argComponent \in Components
    /\ resEncoded = NotCalled
    /\ resDecoded = NotCalled
    /\ argDescriptor = [called |-> FALSE]
    /\ resTopicName = NotCalled
    /\ resWampTopic = NoWampTopic
    /\ resTopicFilter = NotCalled

NextComponent ==
    \/ EncodeTopicComponent
    \/ DecodeTopicComponent

SpecComponent == InitComponent /\ [][NextComponent]_allVars

(* The events given to getTopicName and getTopicFilter: the 13 event types  *)
(* of the table, a namespace, an event filter that is undefined, empty or   *)
(* not, and a correlation id that is undefined or not.                      *)
EventTypes == { EVENT_TYPE_TOPIC_COMPONENTS[i].type : i \in 1..Len(EVENT_TYPE_TOPIC_COMPONENTS) }
Versions == { 3, 10 }
NameChars == { "a", ".", " " }
Namespaces == UNION { [1..n -> NameChars] : n \in 1..MaxComponentLen }
Filters == { Undefined } \cup UNION { [1..n -> NameChars] : n \in 0..MaxComponentLen }
Descriptors ==
    [ called : { TRUE }, version : Versions, namespace : Namespaces,
      eventType : EventTypes, eventTypeFilter : Filters, sourceId : { << "s" >> },
      correlationId : { Undefined, << "c" >> } ]

GetTopicName ==
    /\ resTopicName = NotCalled
    /\ resTopicName' = _getTopicFor(argDescriptor)
    /\ UNCHANGED << vars, argComponent, resEncoded, resDecoded, argDescriptor, resWampTopic,
                    resTopicFilter, payloadVars >>

CreateByName ==
    /\ resTopicName # NotCalled
    /\ ~resWampTopic.called
    /\ resWampTopic' = createByName(resTopicName)
    /\ UNCHANGED << vars, argComponent, resEncoded, resDecoded, argDescriptor, resTopicName,
                    resTopicFilter, payloadVars >>

GetTopicFilter(shouldEnableCrossNamespacing) ==
    /\ resTopicFilter = NotCalled
    /\ resTopicFilter' = _getTopicFilterFor(argDescriptor, shouldEnableCrossNamespacing)
    /\ UNCHANGED << vars, argComponent, resEncoded, resDecoded, argDescriptor, resTopicName,
                    resWampTopic, payloadVars >>

(* onPublish(eventLike) for an event that is neither Raw nor IoValue *)
OnPublishStructured ==
    /\ nPub = 0
    /\ OnPublish(TopicString(_getTopicFor(argDescriptor)), FALSE)
    /\ UNCHANGED topicVars

(* An event is encoded for publication and the result decoded, encoded for  *)
(* subscription, and published by a binding that has not joined.            *)
InitTopic ==
    /\ InitBinding
    /\ PayloadIdle
    /\ argComponent = NotCalled
    /\ resEncoded = NotCalled
    /\ resDecoded = NotCalled
    /\ argDescriptor \in Descriptors
    /\ resTopicName = NotCalled
    /\ resWampTopic = NoWampTopic
    /\ resTopicFilter = NotCalled

NextTopic ==
    \/ GetTopicName
    \/ CreateByName
    \/ \E cross \in BOOLEAN : GetTopicFilter(cross)
    \/ OnPublishStructured

SpecTopic == InitTopic /\ [][NextTopic]_allVars

(* A publisher and a subscriber: the event of the publisher (argDescriptor) *)
(* and the event-like of the subscriber with the version, the namespace and *)
(* the cross-namespacing option of its binding (argEventLike).  Events are  *)
(* well-formed: a filter is undefined or not empty, a correlation id is     *)
(* given for two-way event types only, and always by the publisher.         *)
StructuredTypes == EventTypes \ { CommunicationEventType.IoValue }
PublishedEvents ==
    { d \in [ called : { TRUE }, version : { 3 }, namespace : { << "a" >>, << "." >> },
              eventType : StructuredTypes, eventTypeFilter : { Undefined, << "a" >> },
              sourceId : { << "s" >> }, correlationId : { Undefined, << "c" >> } ] :
        d.correlationId # Undefined <=> ~_isOneWayEvent(d.eventType) }
SubscribedEvents ==
    { e \in [ called : { TRUE }, version : Versions, namespace : { << "a" >>, << "." >> },
              shouldEnableCrossNamespacing : BOOLEAN,
              eventType : StructuredTypes,
              eventTypeFilter : { Undefined, << "a" >>, << "." >> },
              correlationId : { Undefined, << "c" >>, << "e" >> } ] :
        e.correlationId # Undefined => ~_isOneWayEvent(e.eventType) }

(* onSubscribe(eventLike) of the subscriber: _getTopicFilterFor *)
SubscribeFilter ==
    /\ resTopicFilter = NotCalled
    /\ resTopicFilter' = _getTopicFilterFor(argEventLike, argEventLike.shouldEnableCrossNamespacing)
    /\ UNCHANGED << vars, argComponent, resEncoded, resDecoded, argDescriptor, resTopicName,
                    resWampTopic, payloadVars >>

InitMatch ==
    /\ InitBinding
    /\ argComponent = NotCalled
    /\ resEncoded = NotCalled
    /\ resDecoded = NotCalled
    /\ argDescriptor \in PublishedEvents
    /\ resTopicName = NotCalled
    /\ resWampTopic = NoWampTopic
    /\ resTopicFilter = NotCalled
    /\ argEventLike \in SubscribedEvents
    /\ resPubItem = [called |-> FALSE]
    /\ resFrame = [called |-> FALSE]
    /\ resSubItem = [called |-> FALSE]
    /\ resPayload = [called |-> FALSE]

NextMatch ==
    \/ GetTopicName
    \/ SubscribeFilter

SpecMatch == InitMatch /\ [][NextMatch]_allVars

(* A publisher of a structured event and a subscriber of a Raw topic with a *)
(* match option.  The Raw topic is a sequence of the pieces "coaty", "a"    *)
(* and the dot.                                                             *)
RawFilters == UNION { [1..n -> { PROTOCOL_NAME, "a", "." }] : n \in 0..MaxFilterLen }
RawSubscriptions ==
    [ called : { TRUE }, eventType : { "Raw" }, eventTypeFilter : RawFilters,
      match : { "exact", "prefix", "wildcard" } ]

(* onSubscribe(eventLike) for the Raw event-like of the subscriber: the     *)
(* filter and the match option of _getTopicFilterFor                        *)
OnSubscribeRaw ==
    /\ Created = {}
    /\ lastOp.name # "onSubscribe"
    /\ IF SubscribeIgnored("Raw", argEventLike.eventTypeFilter, FALSE)
       THEN Ignored("onSubscribe")
       ELSE OnSubscribe(SubscriptionKey("Raw", TopicString(argEventLike.eventTypeFilter),
                                        argEventLike.match))
    /\ UNCHANGED topicVars

InitIsolation ==
    /\ InitBinding
    /\ argComponent = NotCalled
    /\ resEncoded = NotCalled
    /\ resDecoded = NotCalled
    /\ argDescriptor \in PublishedEvents
    /\ resTopicName = NotCalled
    /\ resWampTopic = NoWampTopic
    /\ resTopicFilter = NotCalled
    /\ argEventLike \in RawSubscriptions
    /\ resPubItem = [called |-> FALSE]
    /\ resFrame = [called |-> FALSE]
    /\ resSubItem = [called |-> FALSE]
    /\ resPayload = [called |-> FALSE]

NextIsolation ==
    \/ GetTopicName
    \/ OnSubscribeRaw

SpecIsolation == InitIsolation /\ [][NextIsolation]_allVars

----
(* Payloads: where a publish call carries the data of an event and where    *)
(* the handler of a subscription reads it.                                  *)

(* The empty object {} and the first element of an empty array *)
EmptyObject == "{}"
NoElement == "undefined"

(* The events: Raw and the event types of the table, raw data or not *)
EventLikes ==
    [ called : { TRUE }, eventType : { CommunicationEventType.Raw } \cup EventTypes,
      isDataRaw : BOOLEAN, data : { "data1", "data2" } ]

(* An item that takes its payload for keyword arguments unless the data is  *)
(* raw, whatever the event type (variant of isKwargsPayload)                *)
IsKwargsPayloadUnlessRaw(eventLike) == ~eventLike.isDataRaw

(* isKwargsPayload of a publication item and of a subscription item *)
isKwargsPayload(eventLike) ==
    ~eventLike.isDataRaw /\ eventLike.eventType # CommunicationEventType.IoValue

(* _addPublicationItem(eventLike): the item *)
MakePublicationItem ==
    /\ ~resPubItem.called
    /\ resPubItem' = [called |-> TRUE, payload |-> argEventLike.data,
                      isKwargsPayload |-> isKwargsPayload(argEventLike)]
    /\ UNCHANGED << vars, argComponent, resEncoded, resDecoded, argDescriptor, resTopicName,
                    resWampTopic, resTopicFilter, argEventLike, resFrame, resSubItem,
                    resPayload >>

(* _doDrainPublications: args and kwargs of session.publish for the item *)
PublishItem ==
    /\ resPubItem.called
    /\ ~resFrame.called
    /\ resFrame' = [called |-> TRUE,
                    args |-> IF resPubItem.isKwargsPayload THEN <<>>
                             ELSE << resPubItem.payload >>,
                    kwargs |-> IF resPubItem.isKwargsPayload THEN resPubItem.payload
                               ELSE EmptyObject]
    /\ UNCHANGED << vars, argComponent, resEncoded, resDecoded, argDescriptor, resTopicName,
                    resWampTopic, resTopicFilter, argEventLike, resPubItem, resSubItem,
                    resPayload >>

(* _addSubscriptionItem(eventLike) of a subscriber to events of this type *)
MakeSubscriptionItem(isDataRaw) ==
    /\ ~resSubItem.called
    /\ resSubItem' = [called |-> TRUE, eventType |-> argEventLike.eventType,
                      isDataRaw |-> isDataRaw,
                      isKwargsPayload |->
                          isKwargsPayload([eventType |-> argEventLike.eventType,
                                           isDataRaw |-> isDataRaw])]
    /\ UNCHANGED << vars, argComponent, resEncoded, resDecoded, argDescriptor, resTopicName,
                    resWampTopic, resTopicFilter, argEventLike, resPubItem, resFrame,
                    resPayload >>

(* The handler given to session.subscribe is called with the frame *)
HandleFrame ==
    /\ resFrame.called
    /\ resSubItem.called
    /\ ~resPayload.called
    /\ resPayload' = [called |-> TRUE,
                      payload |-> IF resSubItem.isKwargsPayload THEN resFrame.kwargs
                                  ELSE IF resFrame.args = <<>> THEN NoElement
                                  ELSE resFrame.args[1]]
    /\ UNCHANGED << vars, argComponent, resEncoded, resDecoded, argDescriptor, resTopicName,
                    resWampTopic, resTopicFilter, argEventLike, resPubItem, resFrame,
                    resSubItem >>

(* An event is published and delivered to a subscriber. *)
InitPayload ==
    /\ InitBinding
    /\ argComponent = NotCalled
    /\ resEncoded = NotCalled
    /\ resDecoded = NotCalled
    /\ argDescriptor = [called |-> FALSE]
    /\ resTopicName = NotCalled
    /\ resWampTopic = NoWampTopic
    /\ resTopicFilter = NotCalled
    /\ argEventLike \in EventLikes
    /\ resPubItem = [called |-> FALSE]
    /\ resFrame = [called |-> FALSE]
    /\ resSubItem = [called |-> FALSE]
    /\ resPayload = [called |-> FALSE]

NextPayload ==
    \/ MakePublicationItem
    \/ PublishItem
    \/ \E isDataRaw \in BOOLEAN : MakeSubscriptionItem(isDataRaw)
    \/ HandleFrame

SpecPayload == InitPayload /\ [][NextPayload]_allVars

(* The router acknowledges a publication of the session that is open: the  *)
(* then-callback of its promise runs.  A promise of an ended session need  *)
(* never settle.                                                           *)
AckSucceeds ==
    \E p \in pubAcks : Late(p.session) = "" /\ PublishResolved(p) /\ UNCHANGED topicVars

(* The publication queue with acknowledgments that arrive on an open session *)
SpecPubFair == SpecPub /\ WF_vars(AckSucceeds)

----
(* Properties *)

(* The publish calls issued on the open session so far *)
Published == SelectKind(calls, "publish")

(* The handler of the step passed the item with this id to session.publish *)
PublishedInStep(id) ==
    \E j \in 1..Len(calls') :
        /\ lastOp'.name = "onopen" \/ j > Len(calls)
        /\ calls'[j].kind = "publish"
        /\ calls'[j].id = id

InQueue(q, id) == \E j \in 1..Len(q) : q[j].id = id

(* The step is the handler of this name (the retry timer leaves lastOp as   *)
(* it is, but it is the only step besides the connection callbacks that    *)
(* changes the transport). *)
Step(name) == lastOp'.name = name /\ transport' = transport

(* The items of the registry that have the key k *)
Desired(items, k) == { j \in 1..Len(items) : itemKey[items[j]] = k }

(* The calls the step has added to the log of the open session *)
NewCalls == SubSeq(calls', Len(calls) + 1, Len(calls'))

(* C1: on every session the binding opens, the join events A, B, C are the  *)
(* first publications sent on that session, in the order A, B, C, before    *)
(* any publication that was queued while Offline.                           *)
C1_JoinEventsFirst ==
    (isOpen /\ ~sendFailed) =>
        \A i \in 1..Len(Published) :
            i <= Len(JoinEvents) => Published[i].id = JoinEvents[i].id

(* C2: on an open session on which no send fails, every queued item is      *)
(* passed to publish exactly once, in the order it was enqueued, always the *)
(* head of the queue; the queue is empty when the drain has finished, and   *)
(* while it has not, the head is the acknowledged item in flight.           *)
C2_DrainInOrder ==
    (isOpen /\ ~sendFailed) =>
        LET q == _pendingPublicationItems
            n == Len(Published)
        IN  /\ \A i, j \in 1..n : i < j => Published[i].id # Published[j].id
            /\ \A i, j \in 1..n :
                  (i < j /\ Published[i].id > 0 /\ Published[j].id > 0)
                      => Published[i].id < Published[j].id
            /\ _isPublishingDeferred => q = <<>>
            /\ ~_isPublishingDeferred =>
                  /\ q # <<>>
                  /\ Head(q).ack
                  /\ n > 0
                  /\ Published[n].id = Head(q).id
                  /\ \E p \in pubAcks : p.id = Head(q).id /\ p.session = session
            /\ \A j \in 2..Len(q) : \A i \in 1..n : Published[i].id # q[j].id
            /\ \A j \in 2..Len(q) : q[j - 1].id < q[j].id

(* Three items were enqueued while Offline and the open session sent them   *)
(* after the join events, in their order, up to an acknowledged one.        *)
C2_Witness ==
    /\ isOpen /\ ~sendFailed
    /\ Len(Published) = 6
    /\ Published[4].id = 1 /\ Published[5].id = 2 /\ Published[6].id = 3
    /\ _pendingPublicationItems = <<>>
    /\ _isPublishingDeferred
    /\ lastOp.name = "published"

(* C3: when the promise of an acknowledged publish is rejected, the item    *)
(* stays at the head of the queue, publishing is deferred again and no      *)
(* further publish call is issued; the next publish() on the open session   *)
(* sends that same head item again.                                         *)
C3_RejectKeepsHead ==
    [][ /\ lastOp'.name = "publishFailed" =>
              /\ _pendingPublicationItems' = _pendingPublicationItems
              /\ _isPublishingDeferred'
              /\ calls' = calls
        /\ ( /\ lastOp.name = "publishFailed"
             /\ lastOp'.name = "onPublish"
             /\ isOpen
             /\ _pendingPublicationItems # <<>> ) =>
              /\ Len(calls') > Len(calls)
              /\ calls'[Len(calls) + 1] = PublishCall(Head(_pendingPublicationItems))
      ]_vars

(* The second of three queued items was rejected on the open session. *)
C3_Witness ==
    /\ lastOp.name = "publishFailed" /\ lastOp.reason = ""
    /\ isOpen
    /\ Len(_pendingPublicationItems) = 2
    /\ Head(_pendingPublicationItems).id = 2
    /\ _isPublishingDeferred
    /\ Published[Len(Published)].id = 2

(* C4: apart from the resets, an item leaves the queue only in a step that  *)
(* passes it to publish, or (an acknowledged item) when its own             *)
(* acknowledgment arrives: no item is skipped.                              *)
C4_NoItemSkipped ==
    [][ ( \/ lastOp'.name \in {"onPublish", "published", "publishFailed"}
          \/ lastOp'.name = "onopen" /\ ~lastOp'.threw
          \/ lastOp'.name = "onclose" /\ lastOp'.reason = "lost" ) =>
        \A j \in 1..Len(_pendingPublicationItems) :
            LET item == _pendingPublicationItems[j]
            IN  ~InQueue(_pendingPublicationItems', item.id) =>
                    \/ PublishedInStep(item.id)
                    \/ /\ j = 1
                       /\ lastOp'.name = "published"
                       /\ \E p \in pubAcks \ pubAcks' : p.id = item.id
      ]_vars

(* C5: when the transport reports "lost", Offline is emitted, the queue and *)
(* the registry keep their items in their order, and every item of the      *)
(* registry has lost its subscription handle.                               *)
C5_LostRetains ==
    [][ (lastOp'.name = "onclose" /\ lastOp'.reason = "lost") =>
            /\ notes'[Len(notes')] = "Offline"
            /\ _pendingPublicationItems' = _pendingPublicationItems
            /\ _issuedSubscriptionItems' = _issuedSubscriptionItems
            /\ itemKey' = itemKey
            /\ _connection' = _connection
            /\ \A j \in 1..Len(_issuedSubscriptionItems') :
                  subscription'[_issuedSubscriptionItems'[j]] = 0
      ]_vars

(* A session with two queued items and a live subscription was lost. *)
C5_Witness ==
    /\ lastOp.name = "onclose" /\ lastOp.reason = "lost"
    /\ lastOp.pending = 2 /\ lastOp.issued = 1 /\ lastOp.live = 1
    /\ Len(_pendingPublicationItems) = 2
    /\ Len(_issuedSubscriptionItems) = 1
    /\ subscription[_issuedSubscriptionItems[1]] = 0
    /\ _connection

(* C6: when the transport reports "unreachable" or "unsupported", the queue *)
(* and the registry are retained for the retry.                             *)
C6_UnreachableRetains ==
    [][ (lastOp'.name = "onclose" /\ lastOp'.reason \in {"unreachable", "unsupported"}) =>
            /\ _pendingPublicationItems' = _pendingPublicationItems
            /\ _issuedSubscriptionItems' = _issuedSubscriptionItems
      ]_vars

(* C7: when the transport reports "closed", Offline is emitted and the      *)
(* queue and the registry are emptied; an open callback subscribes only     *)
(* items that are in the registry and publishes only join events and items  *)
(* that are in the queue, so nothing discarded is replayed by a later join. *)
C7_ClosedDiscards ==
    [][ /\ (lastOp'.name = "onclose" /\ lastOp'.reason = "closed") =>
              /\ notes'[Len(notes')] = "Offline"
              /\ _pendingPublicationItems' = <<>>
              /\ _issuedSubscriptionItems' = <<>>
              /\ ~_connection'
        /\ (lastOp'.name = "onopen" /\ session' # session) =>
              \A j \in 1..Len(calls') :
                  /\ calls'[j].kind = "subscribe" =>
                        \E h \in 1..Len(_issuedSubscriptionItems) :
                            _issuedSubscriptionItems[h] = calls'[j].id
                  /\ calls'[j].kind = "publish" =>
                        \/ calls'[j].id < 0
                        \/ InQueue(_pendingPublicationItems, calls'[j].id)
      ]_vars

(* A connection with a queued item and a desired subscription was closed. *)
C7_Witness ==
    /\ lastOp.name = "onclose" /\ lastOp.reason = "closed"
    /\ lastOp.pending >= 1 /\ lastOp.issued = 1
    /\ _pendingPublicationItems = <<>>
    /\ _issuedSubscriptionItems = <<>>
    /\ notes = << "Online", "Offline" >>

(* C8: while the binding is joined, an open that follows a "lost" issues    *)
(* exactly one subscribe call for each item of the registry, in the order   *)
(* of the registry.                                                         *)
C8_ResubscribeAll ==
    [][ (lastOp'.name = "onopen" /\ session' # session /\ everOpened /\ joined) =>
            LET subs == SelectKind(calls', "subscribe")
            IN  /\ Len(subs) = Len(_issuedSubscriptionItems)
                /\ \A j \in 1..Len(subs) : subs[j].id = _issuedSubscriptionItems[j]
      ]_vars

C10_TwoTestaments ==
    TransportOpen =>
        LET ts == SelectKind(calls, "add_testament")
        IN  /\ Len(ts) = 2
            /\ calls[1] = TestamentCall("destroyed", UnjoinEvent)
            /\ calls[2] = TestamentCall("detached", UnjoinEvent)

(* C11: the registry holds at most one item per key (eventType, topic,      *)
(* match), whatever subscribe and unsubscribe calls were made; a second     *)
(* subscribe with the same key replaces the item.                           *)
C11_OneItemPerKey ==
    /\ \A k \in SubKeys : Cardinality(Desired(_issuedSubscriptionItems, k)) <= 1
    /\ \A j, h \in 1..Len(_issuedSubscriptionItems) :
          j # h => _issuedSubscriptionItems[j] # _issuedSubscriptionItems[h]

(* The same key was subscribed twice: the second item is the only one. *)
C11_Witness ==
    /\ lastOp.name = "onSubscribe"
    /\ _issuedSubscriptionItems = << 2 >>
    /\ itemKey[1] = itemKey[2]

(* C12: a subscribe of a Raw topic always adds a desired item, also when    *)
(* the same raw topic is already subscribed.                                *)
C12_RawAccumulates ==
    [][ (Step("onSubscribe") /\ lastOp'.reason = RawKey) =>
            Len(_issuedSubscriptionItems') = Len(_issuedSubscriptionItems) + 1
      ]_vars

(* C12, amended: items are told apart by (eventType, topic, match).  A      *)
(* subscribe adds an item only if none has its key, else it replaces that   *)
(* one; an unsubscribe removes the item of its key only; items of another   *)
(* key (a Raw and an IoValue item of the same topic and match) keep their   *)
(* place and their handle, and no unsubscribe call is issued for them.      *)
C12_TypesCoexist ==
    [][ /\ Step("onSubscribe") =>
              LET k == lastOp'.reason
                  items == _issuedSubscriptionItems
              IN  /\ Len(_issuedSubscriptionItems') =
                        Len(items) + (IF Desired(items, k) = {} THEN 1 ELSE 0)
                  /\ \A j \in 1..Len(items) :
                        itemKey[items[j]] # k => _issuedSubscriptionItems'[j] = items[j]
                  /\ subscription' = subscription
                  /\ \A j \in 1..Len(NewCalls) :
                        NewCalls[j].kind = "unsubscribe" => itemKey[NewCalls[j].id] = k
        /\ Step("onUnsubscribe") =>
              LET k == lastOp'.reason
              IN  /\ _issuedSubscriptionItems' =
                        SelectSeq(_issuedSubscriptionItems, LAMBDA i : itemKey[i] # k)
                  /\ subscription' = subscription
                  /\ \A j \in 1..Len(NewCalls) :
                        NewCalls[j].kind = "unsubscribe" /\ itemKey[NewCalls[j].id] = k
      ]_vars

(* A Raw and an IoValue item of the same topic were subscribed; after the   *)
(* unsubscribe of the Raw one the IoValue one is desired and subscribed.    *)
C12_Witness ==
    /\ lastOp.name = "onUnsubscribe" /\ lastOp.reason = RawKey
    /\ isOpen
    /\ _issuedSubscriptionItems = << 2 >>
    /\ itemKey[1] = RawKey /\ itemKey[2] = IoValueKey
    /\ subscription[2] = session
    /\ \E j \in 1..Len(calls) : calls[j] = UnsubscribeCall(1)

(* The items whose handler is live on the open session: the session has    *)
(* confirmed their subscription and no unsubscribe has been confirmed.      *)
LiveHandlers(k) ==
    { i \in Created : itemKey[i] = k /\ subscription[i] = session /\ TransportOpen }

(* C13: once no subscribe or unsubscribe confirmation is pending, at most   *)
(* one handler is live on the open session for each key.                    *)
C13_OneLiveHandler ==
    (TransportOpen /\ subReqs = {} /\ unsubReqs = {}) =>
        \A k \in SubKeys : Cardinality(LiveHandlers(k)) <= 1

SubscribeCount(cs, i) ==
    Cardinality({ j \in 1..Len(cs) : cs[j].kind = "subscribe" /\ cs[j].id = i })

(* C15: onSubscribe records the new item in the registry; while no session  *)
(* is open it issues no call, while one is open it issues exactly one       *)
(* subscribe call for the item; while the binding is joined, a session that *)
(* opens gets one subscribe call for every item of the registry.            *)
C15_SubscribeNowOrAtOpen ==
    [][ /\ Step("onSubscribe") =>
              /\ \E j \in 1..Len(_issuedSubscriptionItems') :
                    _issuedSubscriptionItems'[j] = NextItem
              /\ SubscribeCount(NewCalls, NextItem) = IF TransportOpen THEN 1 ELSE 0
        /\ (lastOp'.name = "onopen" /\ session' # session /\ joined) =>
              \A j \in 1..Len(_issuedSubscriptionItems) :
                  SubscribeCount(calls', _issuedSubscriptionItems[j]) = 1
      ]_vars

(* C16: a publish call is issued only by a handler that finds, or opens, a  *)
(* session; onPublish without an open session appends the item to the queue *)
(* and issues no call; and while no session is open a queued item stays     *)
(* queued, unless the application unjoins, so that the session that opens   *)
(* next finds it pending.                                                   *)
C16_PublishOnlyWhenOpen ==
    [][ /\ Len(SelectKind(calls', "publish")) > 0 /\ calls' # calls => TransportOpen'
        /\ (Step("onPublish") /\ ~TransportOpen) =>
              /\ calls' = calls
              /\ Len(_pendingPublicationItems') = Len(_pendingPublicationItems) + 1
              /\ SubSeq(_pendingPublicationItems', 1, Len(_pendingPublicationItems))
                    = _pendingPublicationItems
              /\ _pendingPublicationItems'[Len(_pendingPublicationItems')].id = nPub'
        /\ (~TransportOpen /\ ~TransportOpen' /\ joined') =>
              \A j \in 1..Len(_pendingPublicationItems) :
                  InQueue(_pendingPublicationItems', _pendingPublicationItems[j].id)
      ]_vars

(* C17: the callback of a promise whose session has ended changes neither   *)
(* the queue, nor the draining flag, nor any subscription handle, and       *)
(* issues no call.                                                          *)
C17_LateCallbackIgnored ==
    [][ ( /\ lastOp'.reason = "late"
          /\ lastOp'.name \in {"published", "publishFailed", "subscribed",
                               "subscribeFailed", "unsubscribed"}
          /\ transport' = transport ) =>
            /\ _pendingPublicationItems' = _pendingPublicationItems
            /\ _isPublishingDeferred' = _isPublishingDeferred
            /\ subscription' = subscription
            /\ calls' = calls
      ]_vars

(* C18: an item of the registry carries a handle only while a session is    *)
(* open, and the handle is one of that session.                             *)
C18_HandlesOfOpenSession ==
    \A j \in 1..Len(_issuedSubscriptionItems) :
        LET h == subscription[_issuedSubscriptionItems[j]]
        IN  h # 0 => (TransportOpen /\ h = session)

(* C19: no public entry point throws: the only exception is the one the     *)
(* open callback catches itself.                                            *)
C19_EntryPointsDoNotThrow == lastOp.threw => lastOp.name = "onopen"

(* What the topic of a publication must not be: the empty string, a topic   *)
(* with an empty segment, or with a segment containing white space or "#".  *)
HasBadPiece(t) == \E i \in 1..Len(t) : t[i] \in { "#", " " }
HasEmptySegment(t) ==
    /\ t # <<>>
    /\ \/ t[1] = "."
       \/ t[Len(t)] = "."
       \/ \E i \in 1..(Len(t) - 1) : t[i] = "." /\ t[i + 1] = "."
StartsWithCoaty(t) == Len(t) >= 2 /\ t[1] = "coaty" /\ t[2] = "."

(* C20: onPublish of a Raw event whose topic starts with "coaty.", is       *)
(* empty, has an empty segment or has a segment with white space or "#"     *)
(* changes neither the queue nor the calls; onSubscribe of a Raw or IoValue *)
(* event whose topic is empty or has white space or "#", of a Raw event     *)
(* whose topic starts with "coaty.", and of an IoValue event whose topic    *)
(* has an empty segment changes neither the registry nor the calls.         *)
C20_InvalidTopicIgnored ==
    [][ /\ Step("onPublish") => \A t \in Topics :
              ( /\ StartsWithCoaty(t) \/ t = <<>> \/ HasEmptySegment(t) \/ HasBadPiece(t)
                /\ OnPublishEvent("Raw", t, FALSE) ) =>
                  /\ _pendingPublicationItems' = _pendingPublicationItems
                  /\ nPub' = nPub
                  /\ calls' = calls
        /\ Step("onSubscribe") =>
            \A eventType \in {"Raw", "IoValue"}, t \in Topics, ext \in BOOLEAN :
              ( /\ \/ t = <<>>
                   \/ HasBadPiece(t)
                   \/ eventType = "Raw" /\ StartsWithCoaty(t)
                   \/ eventType = "IoValue" /\ HasEmptySegment(t)
                /\ OnSubscribeEvent(eventType, t, ext) ) =>
                  /\ _issuedSubscriptionItems' = _issuedSubscriptionItems
                  /\ itemKey' = itemKey
                  /\ calls' = calls
      ]_vars

(* On an open session a publish was ignored: nothing is queued and the log  *)
(* of the session holds the calls of the open sequence only.                *)
C20_Witness ==
    /\ lastOp.name = "onPublish" /\ lastOp.reason = "invalid"
    /\ isOpen
    /\ _pendingPublicationItems = <<>>
    /\ nPub = 0
    /\ Len(calls) = 2 + Len(JoinEvents)

(* The code of a character as the protocol describes it: three NUL for a    *)
(* dot, NUL and the two decimal digits of its place in the list for a white *)
(* space character, the character itself otherwise.                         *)
EscapeOf(c) ==
    IF c = "." THEN << NUL, NUL, NUL >>
    ELSE IF \E i \in 1..Len(WHITESPACE_CHARS) : WHITESPACE_CHARS[i] = c
         THEN LET i == CHOOSE j \in 1..Len(WHITESPACE_CHARS) : WHITESPACE_CHARS[j] = c
              IN << NUL, Digits[((i - 1) \div 10) + 1], Digits[((i - 1) % 10) + 1] >>
         ELSE << c >>
RECURSIVE Escaped(_)
Escaped(str) == IF str = <<>> THEN <<>> ELSE EscapeOf(Head(str)) \o Escaped(Tail(str))

(* C24: the encoding of a component without NUL is the escape of each of    *)
(* its characters, it holds neither a dot nor a white space character, and  *)
(* decoding it gives the component back.                                     *)
C24_ComponentRoundTrip ==
    /\ resEncoded # NotCalled =>
          /\ resEncoded = Escaped(argComponent)
          /\ \A i \in 1..Len(resEncoded) :
                resEncoded[i] # "." /\ ~IsWhiteSpace(resEncoded[i])
    /\ resDecoded # NotCalled => resDecoded = argComponent

(* A component with a dot and the white space character of index 11 has    *)
(* been encoded and decoded.                                                *)
C24_Witness ==
    /\ argComponent = << ".", "U+2003" >>
    /\ resEncoded = << NUL, NUL, NUL, NUL, "1", "1" >>
    /\ resDecoded = argComponent

(* The event types of the protocol, by name *)
FilterRequired == { CommunicationEventType.Advertise, CommunicationEventType.Update,
                    CommunicationEventType.Channel, CommunicationEventType.Call,
                    CommunicationEventType.Associate }
TwoWayRequests == { CommunicationEventType.Discover, CommunicationEventType.Query,
                    CommunicationEventType.Update, CommunicationEventType.Call }
TwoWayResponses == { CommunicationEventType.Resolve, CommunicationEventType.Retrieve,
                     CommunicationEventType.Complete, CommunicationEventType.Return }
TwoWayTypes == TwoWayRequests \cup TwoWayResponses

(* An event with an empty filter where one is required, or a two-way event  *)
(* without correlation id                                                   *)
Malformed(d) ==
    \/ d.eventType \in FilterRequired /\ d.eventTypeFilter = <<>>
    \/ d.eventType \in TwoWayTypes /\ d.correlationId = Undefined

(* C21: for a malformed event no publication topic is produced and nothing  *)
(* is queued.                                                               *)
C21_MalformedRejected ==
    Malformed(argDescriptor) =>
        /\ resTopicName = NotCalled
        /\ _pendingPublicationItems = <<>>

(* The value of a call that is rejected *)
Rejected == << "rejected" >>

(* C22: getTopicFilter for a response event type (Resolve, Retrieve,        *)
(* Complete, Return) with an event filter supplied produces no pattern.     *)
C22_ResponseFilterRejected ==
    ( /\ argDescriptor.eventType \in TwoWayResponses
      /\ Truthy(argDescriptor.eventTypeFilter)
      /\ resTopicFilter # NotCalled ) => resTopicFilter = Rejected

(* A valid event: an event filter that is absent or not empty, and a        *)
(* correlation id exactly for the two-way event types                       *)
Valid(d) ==
    /\ d.namespace # <<>>
    /\ d.eventTypeFilter = Undefined \/ d.eventTypeFilter # <<>>
    /\ d.correlationId # Undefined <=> d.eventType \in TwoWayTypes

(* C23: the topic decoded from the publication topic of a valid event has   *)
(* the version, namespace, event type, event filter, source id and          *)
(* correlation id of the event.                                             *)
C23_TopicRoundTrip ==
    ( Valid(argDescriptor) /\ resWampTopic.called ) =>
        /\ resWampTopic.defined
        /\ resWampTopic.version = argDescriptor.version
        /\ resWampTopic.namespace = argDescriptor.namespace
        /\ resWampTopic.eventType = argDescriptor.eventType
        /\ resWampTopic.eventTypeFilter = argDescriptor.eventTypeFilter
        /\ resWampTopic.sourceId = argDescriptor.sourceId
        /\ resWampTopic.correlationId = argDescriptor.correlationId

(* The topic of a Call event of version 10 whose namespace has a dot and    *)
(* whose filter has a space has been decoded.                               *)
C23_Witness ==
    /\ argDescriptor.version = 10
    /\ argDescriptor.eventType = CommunicationEventType.Call
    /\ argDescriptor.namespace = << "a", "." >>
    /\ argDescriptor.eventTypeFilter = << " ", "a" >>
    /\ argDescriptor.correlationId = << "c" >>
    /\ resTopicName = << "coaty", ".", "1", "0", ".", "a", NUL, NUL, NUL, ".",
                         "C", "L", "L", NUL, "0", "0", "a", ".", "s", ".", "c" >>
    /\ resWampTopic.called
    /\ resWampTopic.eventTypeFilter = << " ", "a" >>

(* The 13 event types of the protocol *)
ProtocolTypes ==
    { CommunicationEventType.Advertise, CommunicationEventType.Deadvertise,
      CommunicationEventType.Channel, CommunicationEventType.Associate,
      CommunicationEventType.IoValue } \cup TwoWayTypes

(* Each of the 13 event types has a prefix of 3 characters that maps back   *)
(* to it, and no two of them have the same prefix.                          *)
PrefixTableBijective ==
    /\ Cardinality(ProtocolTypes) = 13
    /\ \A t \in ProtocolTypes :
          /\ _getEventTopicComponentPrefix(t) # Undefined
          /\ Len(_getEventTopicComponentPrefix(t)) = 3
          /\ _getEventType(_getEventTopicComponentPrefix(t)) = t
    /\ \A t, u \in ProtocolTypes :
          t # u => _getEventTopicComponentPrefix(t) # _getEventTopicComponentPrefix(u)

(* C25: each of the 13 event types has a prefix of 3 characters, no two of  *)
(* them have the same prefix, the prefix maps back to the event type, and   *)
(* the event component of a publication topic starts with a prefix that     *)
(* maps to the event type of the event.                                     *)
C25_PrefixBijection ==
    /\ PrefixTableBijective
    /\ resTopicName # NotCalled =>
          _getEventType(SubSeq(Split(resTopicName)[4], 1, 3)) = argDescriptor.eventType

(* The publication topic of a Return event has been built: its event        *)
(* component is RTN.                                                        *)
C25_Witness ==
    /\ argDescriptor.eventType = CommunicationEventType.Return
    /\ resTopicName # NotCalled
    /\ Split(resTopicName)[4] = << "R", "T", "N" >>

(* C26: the publication topic of an event is                                *)
(* coaty.<version>.<namespace>.<prefix><filter>.<sourceId>, namespace and   *)
(* filter escaped, with .<correlationId> after it exactly for a two-way     *)
(* event type: 5 components for a one-way event, 6 for a two-way event.     *)
C26_TopicShape ==
    resTopicName # NotCalled =>
        LET d == argDescriptor
            comps == Split(resTopicName)
        IN /\ Len(comps) = IF d.eventType \in TwoWayTypes THEN 6 ELSE 5
           /\ comps[1] = << "coaty" >>
           /\ comps[2] = NumberToString(d.version)
           /\ comps[3] = Escaped(d.namespace)
           /\ comps[4] = _getEventTopicComponentPrefix(d.eventType)
                         \o (IF d.eventTypeFilter = Undefined THEN <<>>
                             ELSE Escaped(d.eventTypeFilter))
           /\ comps[5] = d.sourceId
           /\ d.eventType \in TwoWayTypes => comps[6] = d.correlationId

(* The topic of an Advertise event whose filter has a dot, given with a     *)
(* correlation id, has been built: it has no correlation id.                *)
C26_Witness ==
    /\ argDescriptor.eventType = CommunicationEventType.Advertise
    /\ argDescriptor.eventTypeFilter = << "a", "." >>
    /\ argDescriptor.namespace = << " " >>
    /\ argDescriptor.correlationId = << "c" >>
    /\ resTopicName = << "coaty", ".", "3", ".", NUL, "0", "0", ".",
                         "A", "D", "V", "a", NUL, NUL, NUL, ".", "s" >>

(* The pattern of the protocol for an event: coaty.<version>.<namespace>.   *)
(* <prefix><filter>. with an empty namespace under cross-namespacing, one   *)
(* more dot for a two-way event type, and the correlation id after it if    *)
(* there is one.                                                            *)
PatternOf(d, cross) ==
    LET base == << "coaty", "." >> \o NumberToString(d.version) \o << "." >>
                \o (IF cross THEN <<>> ELSE Escaped(d.namespace)) \o << "." >>
                \o _getEventTopicComponentPrefix(d.eventType)
                \o (IF d.eventTypeFilter = Undefined THEN <<>> ELSE Escaped(d.eventTypeFilter))
                \o << "." >>
    IN IF d.eventType \in TwoWayTypes
       THEN (IF d.correlationId = Undefined THEN base \o << "." >>
             ELSE base \o << "." >> \o d.correlationId)
       ELSE base

(* C27: the subscription filter of an event has match mode wildcard and is  *)
(* coaty.<ver>.<ns>.<prefix+filter>. for a one-way event type, the same     *)
(* with one more dot for a two-way event without correlation id, and the    *)
(* same with one more dot and the correlation id for a two-way event with   *)
(* a correlation id (coaty.<ver>.<ns>.<prefix>..<correlationId> for a       *)
(* response, which has no filter); with cross-namespacing the namespace     *)
(* component is empty.                                                      *)
C27_FilterShape ==
    [][ \A cross \in BOOLEAN :
            GetTopicFilter(cross) =>
                resTopicFilter' = << PatternOf(argDescriptor, cross), "wildcard" >> ]_allVars

(* The pattern of a Resolve event with a correlation id and without filter  *)
(* under cross-namespacing                                                  *)
C27_Witness ==
    /\ argDescriptor.eventType = CommunicationEventType.Resolve
    /\ argDescriptor.eventTypeFilter = Undefined
    /\ resTopicFilter = << << "coaty", ".", "3", ".", ".", "R", "S", "V", ".", ".", "c" >>,
                           "wildcard" >>

(* The data of the event is carried as the one positional argument, or as   *)
(* the keyword arguments.                                                   *)
Positional == resFrame.args = << argEventLike.data >> /\ resFrame.kwargs = "{}"
Keyword == resFrame.args = <<>> /\ resFrame.kwargs = argEventLike.data

UnjoinStep == joined /\ ~joined' /\ lastOp'.name = "onUnjoin"

(* C29: onUnjoin with no connected transport resets the binding to Offline  *)
(* and resolves at once; with a connected transport it closes the transport, *)
(* issues no call on the session (no publish of the unjoin event) and       *)
(* resolves later.                                                          *)
C29_Unjoin ==
    [][ UnjoinStep =>
          IF ~TransportConnected
          THEN /\ lastOp'.reason = "reset"
               /\ ~_connection'
               /\ notes'[Len(notes')] = "Offline"
               /\ transport' = transport
               /\ calls' = calls
          ELSE /\ lastOp'.reason = "close"
               /\ transport' \in { "closingOpen", "closingConn" }
               /\ calls' = calls
               /\ _pendingPublicationItems' = _pendingPublicationItems
      ]_vars

(* C30: after onInit the binding is Offline, has no connection, the queue   *)
(* of pending publications and the registry of subscription items are empty *)
(* and _isPublishingDeferred is true; the first open of a session, if it is *)
(* the first callback of the connection, finds the flag set and passes      *)
(* every item queued since to publish, up to an acknowledged one that is    *)
(* then awaited.                                                            *)
C30_InitArmed ==
    [][ /\ lastOp.name = "onInit" =>
              /\ ~joined /\ ~_connection /\ transport = "none"
              /\ notes = << "Offline" >>
              /\ _pendingPublicationItems = <<>>
              /\ _issuedSubscriptionItems = <<>>
              /\ _isPublishingDeferred
        /\ ( lastOp'.name = "onopen" /\ ~lastOp'.threw /\ session = 0 ) =>
              /\ _isPublishingDeferred
              /\ \A j \in 1..Len(_pendingPublicationItems) :
                    \/ PublishedInStep(_pendingPublicationItems[j].id)
                    \/ /\ ~_isPublishingDeferred'
                       /\ _pendingPublicationItems' # <<>>
                       /\ Head(_pendingPublicationItems').ack
                       /\ PublishedInStep(Head(_pendingPublicationItems').id)
                       /\ InQueue(_pendingPublicationItems', _pendingPublicationItems[j].id)
              /\ _isPublishingDeferred' => _pendingPublicationItems' = <<>>
      ]_vars

(* Two items published before the join have been sent by the first open of  *)
(* a session, after the three join events.                                  *)
C30_Witness ==
    /\ lastOp.name = "onopen" /\ ~lastOp.threw
    /\ session = 1
    /\ nPub = 2
    /\ Len(Published) = 5
    /\ Published[4].id = 1 /\ Published[5].id = 2
    /\ _pendingPublicationItems = <<>>
    /\ _isPublishingDeferred

(* C31: every successful open arms and runs the drain: once a session is   *)
(* open with the connection object in place (in particular after a lost    *)
(* connection and a reconnection, with an acknowledgment of the lost       *)
(* session still outstanding), the queue eventually becomes empty, unless  *)
(* the session ends or an acknowledgment fails.                            *)
C31_OpenDrains ==
    (isOpen /\ lastOp.name = "onopen")
        ~> \/ _pendingPublicationItems = <<>>
           \/ transport # "open"
           \/ lastOp.name = "publishFailed"

(* The join events among the pending items, in queue order *)
PendingJoinItems(q) == SelectSeq(q, LAMBDA item : item.id < 0)

(* No two pending join items have the same topic, and the pending join      *)
(* events stand in the order of joinEvents.                                 *)
JoinItemsOnceInOrder(q) ==
    LET js == PendingJoinItems(q)
    IN  \A i, j \in 1..Len(js) :
            i < j => js[i].topic # js[j].topic /\ js[i].id > js[j].id

(* C32: the open sequence enqueues a join event only if no pending item has *)
(* its topic: a join event that is not pending and whose topic is held by   *)
(* a pending item is neither queued nor published by that open, a join      *)
(* event that is pending is not queued a second time; and in every state    *)
(* the queue holds no two join items with the same topic and holds the join *)
(* events in the order given.                                               *)
C32_JoinEventsOnce ==
    [][ /\ JoinItemsOnceInOrder(_pendingPublicationItems')
        /\ (lastOp'.name = "onopen" /\ ~lastOp'.threw /\ transport' = "open" /\ transport # "open") =>
              \A n \in 1..Len(JoinEvents) :
                  LET e == JoinEvents[n]
                      q == _pendingPublicationItems
                  IN  /\ (~InQueue(q, e.id) /\ \E i \in 1..Len(q) : q[i].topic = e.topic)
                            => ~InQueue(_pendingPublicationItems', e.id) /\ ~PublishedInStep(e.id)
                      /\ InQueue(q, e.id) =>
                            ~(InQueue(_pendingPublicationItems', e.id) /\ PublishedInStep(e.id))
      ]_vars

(* A retried join: a later session has opened while join events of an      *)
(* earlier open were still pending, and they are pending once.             *)
C32_Witness ==
    /\ lastOp.name = "onopen"
    /\ ~lastOp.threw
    /\ session = 3
    /\ _isPublishingDeferred = FALSE
    /\ Len(PendingJoinItems(_pendingPublicationItems)) = Len(JoinEvents)

(* The step has passed an item to session.publish *)
PublishIssued ==
    \E j \in 1..Len(calls') :
        /\ (lastOp'.name = "onopen" /\ transport # "open") \/ j > Len(calls)
        /\ calls'[j].kind = "publish"

(* C33: at most one acknowledged publication is in flight at any time, and *)
(* while an acknowledgment is pending no handler issues a further publish  *)
(* call, except the callback of that acknowledgment itself.                *)
C33_OneInFlight ==
    [][ /\ Cardinality(pubAcks') <= 1
        /\ (pubAcks # {} /\ pubAcks \subseteq pubAcks') => ~PublishIssued
      ]_vars

(* C34: when onSubscribe replaces an item of the same key on an open        *)
(* session, the new item takes the place of the old one in the registry and *)
(* its subscribe call is the first call issued; the unsubscribe call for    *)
(* the live handle of the old item follows it, so that every unsubscribe    *)
(* call of the step comes after a subscribe call for the same key.          *)
C34_SubscribeBeforeUnsubscribe ==
    [][ (Step("onSubscribe") /\ isOpen /\ Desired(_issuedSubscriptionItems, lastOp'.reason) # {}) =>
            LET k   == lastOp'.reason
                idx == CHOOSE j \in Desired(_issuedSubscriptionItems, k) : TRUE
                old == _issuedSubscriptionItems[idx]
            IN  /\ _issuedSubscriptionItems' = [_issuedSubscriptionItems EXCEPT ![idx] = NextItem]
                /\ Len(NewCalls) >= 1
                /\ NewCalls[1] = SubscribeCall(NextItem, k)
                /\ subscription[old] # 0 =>
                      NewCalls = << SubscribeCall(NextItem, k), UnsubscribeCall(old) >>
                /\ subscription[old] = 0 => Len(NewCalls) = 1
      ]_vars

(* On an open session item 2 has replaced item 1, whose handle was live:    *)
(* subscribe(2) was issued, then unsubscribe(1).                            *)
C34_Witness ==
    /\ lastOp.name = "onSubscribe"
    /\ isOpen
    /\ _issuedSubscriptionItems = << 2 >>
    /\ itemKey[1] = itemKey[2]
    /\ subscription[1] = session
    /\ Len(calls) >= 2
    /\ calls[Len(calls) - 1] = SubscribeCall(2, itemKey[2])
    /\ calls[Len(calls)] = UnsubscribeCall(1)

(* C35: when a subscribe call is rejected, the registry is left as it is,   *)
(* the item has no handle, nothing is thrown and no call is issued; and an  *)
(* open callback that completes issues one subscribe call for every item of *)
(* the registry, the rejected ones included.                                *)
C35_RejectedSubscribeRetried ==
    [][ /\ Step("subscribeFailed") =>
              /\ _issuedSubscriptionItems' = _issuedSubscriptionItems
              /\ \A p \in subReqs \ subReqs' : subscription'[p.item] = 0
              /\ ~lastOp'.threw
              /\ calls' = calls
        /\ (lastOp'.name = "onopen" /\ session' # session /\ ~lastOp'.threw) =>
              /\ _issuedSubscriptionItems' = _issuedSubscriptionItems
              /\ \A j \in 1..Len(_issuedSubscriptionItems) :
                    SubscribeCount(calls', _issuedSubscriptionItems[j]) = 1
      ]_vars

(* Item 1 was left without a handle on session 1 and no request of that    *)
(* session is pending; session 2 has opened and has issued a subscribe     *)
(* call for item 1 again.                                                  *)
C35_Witness ==
    /\ lastOp.name = "onopen" /\ ~lastOp.threw
    /\ session = 2
    /\ _issuedSubscriptionItems = << 1 >>
    /\ subscription[1] = 0
    /\ subReqs = { [item |-> 1, session |-> 2] }
    /\ SubscribeCount(calls, 1) = 1

(* C36: when a step of the open sequence throws, the exception is swallowed *)
(* and the binding is reset: the last state emitted is Offline, the         *)
(* connection object, the queue and the registry are dropped, the calls     *)
(* issued are those that precede the throwing one and no publish call is    *)
(* among them; and as long as the binding stays reset no handler or         *)
(* callback issues a call.                                                  *)
C36_OpenThrowSwallowed ==
    [][ /\ (lastOp'.name = "onopen" /\ lastOp'.threw /\ session' # session) =>
              /\ notes'[Len(notes')] = "Offline"
              /\ ~_connection'
              /\ _isPublishingDeferred'
              /\ _pendingPublicationItems' = <<>>
              /\ _issuedSubscriptionItems' = <<>>
              /\ SelectKind(calls', "publish") = <<>>
              /\ \E n \in 0..(2 + Len(_issuedSubscriptionItems)) :
                    calls' = SubSeq(AddSessionTestaments(_joinOptions)
                                      \o SubscribeCalls(_issuedSubscriptionItems, itemKey, TRUE),
                                    1, n)
        /\ (~_connection /\ ~_connection') => calls' \in {calls, <<>>}
      ]_vars

(* The first publish call of an open sequence threw: Online and Offline     *)
(* were emitted, the testament and subscribe calls were issued before, and  *)
(* the binding is reset.                                                    *)
C36_Witness ==
    /\ lastOp.name = "onopen" /\ lastOp.threw /\ lastOp.reason = "not opened"
    /\ notes = << "Online", "Offline" >>
    /\ Len(calls) = 3
    /\ calls[3].kind = "subscribe"
    /\ ~_connection
    /\ nPub > 0
    /\ _pendingPublicationItems = <<>>

(* C37: while the transport has an open session (the open callback has     *)
(* run, no close was requested), the last communication state emitted is   *)
(* Online.                                                                 *)
C37_OnlineWhenOpen ==
    transport = "open" => notes[Len(notes)] = "Online"

(* C38: once no subscribe or unsubscribe confirmation is pending, no        *)
(* handler is live on the open session for a key that has no item in the    *)
(* registry: an item that was unsubscribed has left no handler behind.      *)
C38_NoOrphanHandler ==
    (TransportOpen /\ subReqs = {} /\ unsubReqs = {}) =>
        \A k \in SubKeys :
            Desired(_issuedSubscriptionItems, k) = {} => LiveHandlers(k) = {}

(* WAMP wildcard matching: the topic and the pattern have the same number   *)
(* of components, and each component of the pattern is empty or equal to    *)
(* that of the topic.                                                       *)
WildcardMatches(topic, pattern) ==
    LET ts == Split(topic)
        ps == Split(pattern)
    IN  /\ Len(ts) = Len(ps)
        /\ \A i \in 1..Len(ps) : ps[i] = <<>> \/ ps[i] = ts[i]

(* The subscription e is one for the event d: same version, event type and  *)
(* event filter, the same namespace unless cross-namespacing is enabled,    *)
(* and the same correlation id if the subscription gives one.               *)
SubscribedTo(d, e) ==
    /\ d.version = e.version
    /\ d.eventType = e.eventType
    /\ d.eventTypeFilter = e.eventTypeFilter
    /\ e.shouldEnableCrossNamespacing \/ d.namespace = e.namespace
    /\ e.correlationId # Undefined => d.correlationId = e.correlationId

(* C39: the topic of a published event matches the wildcard filter of a     *)
(* subscription exactly if the subscription is one for that event.          *)
C39_ReachesItsSubscribers ==
    (resTopicName # NotCalled /\ resTopicFilter # NotCalled) =>
        /\ resTopicFilter[2] = "wildcard"
        /\ WildcardMatches(resTopicName, resTopicFilter[1])
              <=> SubscribedTo(argDescriptor, argEventLike)

(* A Resolve event of namespace "." with correlation id c matches the       *)
(* filter of a subscriber of namespace "a" with cross-namespacing for the   *)
(* responses to c.                                                          *)
C39_Witness ==
    /\ argDescriptor.eventType = CommunicationEventType.Resolve
    /\ argDescriptor.namespace = << "." >>
    /\ argEventLike.namespace = << "a" >>
    /\ resTopicName = << "coaty", ".", "3", ".", NUL, NUL, NUL, ".", "R", "S", "V", ".", "s", ".", "c" >>
    /\ resTopicFilter = << << "coaty", ".", "3", ".", ".", "R", "S", "V", ".", ".", "c" >>,
                           "wildcard" >>
    /\ WildcardMatches(resTopicName, resTopicFilter[1])

(* Whether a subscription with this topic and match option receives the    *)
(* publications of a topic: exact, prefix (the topic begins with the        *)
(* subscription topic) or wildcard.                                         *)
SubscriptionMatches(topic, pattern, match) ==
    IF match = "exact" THEN topic = pattern
    ELSE IF match = "prefix"
    THEN Len(pattern) <= Len(topic) /\ SubSeq(topic, 1, Len(pattern)) = pattern
    ELSE WildcardMatches(topic, pattern)

====
